---- MODULE Spec2Model ----
(***************************************************************************)
(* Model of symphony_room_modifier.py: SymphonyRoomModifier.update_room    *)
(* (the reconciliation engine, with its nested exception handlers and its  *)
(* recursive retries), driven by SymphonyRoomModifier.update_rooms over a  *)
(* list of streams and by SymphonyRoomModifier.update_rooms_from_csv over  *)
(* the rows of a file, and the module's helper functions.  The pod behind  *)
(* the BDK is the environment: every BDK call either succeeds or fails     *)
(* with one of the errors of GatewayErrors.                                *)
(***************************************************************************)
EXTENDS Integers, Sequences, FiniteSets, TLC

(***************************************************************************)
(* Bounds                                                                  *)
(***************************************************************************)
\* deepest nesting of update_room activations (the interpreter's recursion
\* limit stands behind it: one more nested call raises RecursionError)
MaxDepth == 2
\* longest list of streams handed to update_rooms
MaxStreams == 3
\* longest stream id handed to _make_b64_id_safe on its own
MaxLen == 3
\* most rows of a file handed to update_rooms_from_csv
MaxRows == 2

(***************************************************************************)
(* Known error message reasons                                             *)
(***************************************************************************)
NOT_ROOM_MEMBER_MESSAGE == "User bot is not a member of the room"
NOT_ROOM_OWNER_MESSAGE == "Only room owners can perform this action."
NOT_ABLE_TO_JOIN_MULTILATERAL_ROOMS == "This person is not permitted to join multilateral rooms."
NOT_ABLE_TO_DEMOTE_ONLY_OWNER == "Unable to demote last owner of the chatroom."
NOT_ABLE_TO_OWN_PUBLIC_ROOM == "User is not entitled to be a public room owner"

\* an error whose body carries some other message
UNKNOWN_MESSAGE == "some other reason"
\* an error that has no JSON body at all (transport failure)
TRANSPORT_ERROR == "TransportError"
\* raised by json.loads(err.body) when err has no body
ATTRIBUTE_ERROR == "AttributeError"
\* raised by one update_room activation too many
RECURSION_ERROR == "RecursionError"

\* errors with a JSON body holding a 'message'
ApiMessages ==
    { NOT_ROOM_MEMBER_MESSAGE, NOT_ROOM_OWNER_MESSAGE,
      NOT_ABLE_TO_JOIN_MULTILATERAL_ROOMS, NOT_ABLE_TO_DEMOTE_ONLY_OWNER,
      NOT_ABLE_TO_OWN_PUBLIC_ROOM, UNKNOWN_MESSAGE }

\* what a BDK call can fail with
GatewayErrors == ApiMessages \cup { TRANSPORT_ERROR }

\* what a BDK call can answer
OK == "ok"

\* the answers of each endpoint: success, the reasons some handler of that
\* call tells apart, a reason no handler knows, and a failure without a body
Responses(op) ==
    CASE op = "get_room_info" ->
            { OK, NOT_ROOM_OWNER_MESSAGE, NOT_ROOM_MEMBER_MESSAGE, UNKNOWN_MESSAGE, TRANSPORT_ERROR }
      [] op = "update_room" ->
            { OK, NOT_ROOM_OWNER_MESSAGE, NOT_ROOM_MEMBER_MESSAGE, UNKNOWN_MESSAGE, TRANSPORT_ERROR }
      [] op = "promote" ->
            { OK, NOT_ROOM_MEMBER_MESSAGE, NOT_ABLE_TO_OWN_PUBLIC_ROOM, TRANSPORT_ERROR }
      [] op = "add" ->
            { OK, NOT_ABLE_TO_JOIN_MULTILATERAL_ROOMS, UNKNOWN_MESSAGE, TRANSPORT_ERROR }
      [] op = "demote" ->
            { OK, NOT_ABLE_TO_DEMOTE_ONLY_OWNER, NOT_ROOM_MEMBER_MESSAGE, UNKNOWN_MESSAGE, TRANSPORT_ERROR }
      [] OTHER ->
            { OK, NOT_ROOM_MEMBER_MESSAGE, UNKNOWN_MESSAGE, TRANSPORT_ERROR }

HasBody(e) == e \in ApiMessages

(***************************************************************************)
(* Stream ids: strings as sequences of characters                          *)
(***************************************************************************)
RECURSIVE rstrip(_, _)
rstrip(s, chars) ==
    IF s # <<>> /\ s[Len(s)] \in chars
    THEN rstrip(SubSeq(s, 1, Len(s) - 1), chars)
    ELSE s

Replace(s, from, to) == [i \in 1..Len(s) |-> IF s[i] = from THEN to ELSE s[i]]

Whitespace == { " " }

_make_b64_id_safe(id) ==
    rstrip(rstrip(Replace(Replace(id, "+", "-"), "/", "_"), { "=" }), Whitespace)

(***************************************************************************)
(* Room attributes (V3RoomAttributes) and the modification predicate       *)
(***************************************************************************)
\* keys of ROOM_TO_CSV_ROOM_MAP, in dictionary order
ROOM_TO_CSV_ROOM_MAP ==
    << "id", "name", "description", "members_can_invite", "discoverable",
       "copy_protected", "view_history", "pinned_message_id" >>

AttributeNames == { ROOM_TO_CSV_ROOM_MAP[i] : i \in 1..Len(ROOM_TO_CSV_ROOM_MAP) }

\* an attribute that is not set on the object ("attribute in settings" is false)
Absent == "<absent>"
\* an attribute that is set to None
Null == "<None>"

\* the booleans True and False as attribute values
BoolValues == { "True", "False" }

\* V3RoomAttributes(): nothing set
V3RoomAttributes == [a \in AttributeNames |-> Absent]

RECURSIVE check_room_modified_from(_, _, _)
check_room_modified_from(i, old_settings, new_settings) ==
    IF i > Len(ROOM_TO_CSV_ROOM_MAP) THEN FALSE
    ELSE LET attribute == ROOM_TO_CSV_ROOM_MAP[i] IN
         IF /\ new_settings[attribute] # Absent
            /\ old_settings[attribute] # Absent
            /\ new_settings[attribute] # Null
            /\ new_settings[attribute] # old_settings[attribute]
         THEN TRUE
         ELSE check_room_modified_from(i + 1, old_settings, new_settings)

\* the predicate without the comparison with the room's value
_check_room_modified_AnySet(old_settings, new_settings) ==
    \E a \in AttributeNames :
        new_settings[a] # Absent /\ old_settings[a] # Absent /\ new_settings[a] # Null

\* the predicate without its tests of what the settings carry: any attribute
\* whose two values are not the same makes it true
_check_room_modified_AnyUnequal(old_settings, new_settings) ==
    \E a \in AttributeNames : new_settings[a] # old_settings[a]

_check_room_modified(old_settings, new_settings) ==
    check_room_modified_from(1, old_settings, new_settings)

\* what the pod does with an accepted update: every attribute that is set and
\* not None in the request replaces the room's value
ApplyAttributes(old_settings, new_settings) ==
    [a \in AttributeNames |->
        IF new_settings[a] # Absent /\ new_settings[a] # Null
        THEN new_settings[a] ELSE old_settings[a]]

(***************************************************************************)
(* Inputs                                                                  *)
(***************************************************************************)
\* stream ids as callers and the pod hand them over (raw, not yet URL safe)
RawIds == { <<"a", "+">>, <<"b", "/", "=">> }

\* rooms of the pod, by URL safe id
RoomIds == { _make_b64_id_safe(id) : id \in RawIds }

\* a room's attributes; the model varies membersCanInvite and pinnedMessageId
Attributes(members_can_invite, pinned_message_id) ==
    [V3RoomAttributes EXCEPT !["name"] = "room",
                             !["members_can_invite"] = members_can_invite,
                             !["discoverable"] = "True",
                             !["copy_protected"] = "False",
                             !["view_history"] = "True",
                             !["pinned_message_id"] = pinned_message_id]

\* the settings a caller asks for: nothing, membersCanInvite off, and
\* membersCanInvite off with a pinned message
SettingsChoices ==
    { V3RoomAttributes,
      [V3RoomAttributes EXCEPT !["members_can_invite"] = "False"],
      [V3RoomAttributes EXCEPT !["members_can_invite"] = "False",
                               !["discoverable"] = Null,
                               !["pinned_message_id"] = "msg"] }

\* the pod before the run: room a- lets members invite and has the bot
\* outside, room b_ does not and has the bot as a participant
InitialPod ==
    [id \in RoomIds |->
        IF id = <<"a", "-">>
        THEN [room_attributes |-> Attributes("True", "old"), member |-> FALSE, owner |-> FALSE]
        ELSE [room_attributes |-> Attributes("False", Absent), member |-> TRUE, owner |-> FALSE]]

RECURSIVE SeqsUpTo(_, _)
SeqsUpTo(S, n) ==
    IF n = 0 THEN { <<>> }
    ELSE LET shorter == SeqsUpTo(S, n - 1) IN
         shorter \cup { Append(q, x) : q \in { r \in shorter : Len(r) = n - 1 }, x \in S }

\* ROOM_TO_CSV_ROOM_MAP[attribute]['mapped_key']
MappedKey ==
    [ id |-> "streamId",
      name |-> "name",
      description |-> "description",
      members_can_invite |-> "membersCanInvite",
      discoverable |-> "discoverable",
      copy_protected |-> "copyProtected",
      view_history |-> "viewHistory",
      pinned_message_id |-> "pinnedMessageId" ]

\* CSV_STREAM_FIELD_NAMES and CSV_RESULTS_STREAM_FIELD_NAMES
CSV_STREAM_FIELD_NAMES == [i \in 1..Len(ROOM_TO_CSV_ROOM_MAP) |-> MappedKey[ROOM_TO_CSV_ROOM_MAP[i]]]
CSV_RESULTS_STREAM_FIELD_NAMES == << "status", "reason" >>

\* ROOM_TO_CSV_ROOM_MAP_NON_MODIFIABLE, by its mapped keys in the order of the dict
ROOM_TO_CSV_ROOM_MAP_NON_MODIFIABLE ==
    << "public", "readOnly", "crossPod", "multiLateralRoom", "active", "keywords",
       "createdByUserId", "creationDate" >>

\* '{} (X)'.format(mapped_key), on the mapped keys of the model
MarkNonModifiable(mapped_key) ==
    CASE mapped_key = "public" -> "public (X)"
      [] mapped_key = "readOnly" -> "readOnly (X)"
      [] mapped_key = "crossPod" -> "crossPod (X)"
      [] mapped_key = "multiLateralRoom" -> "multiLateralRoom (X)"
      [] mapped_key = "active" -> "active (X)"
      [] mapped_key = "keywords" -> "keywords (X)"
      [] mapped_key = "createdByUserId" -> "createdByUserId (X)"
      [] mapped_key = "creationDate" -> "creationDate (X)"

CSV_STREAM_NON_MODIFIABLE_FIELD_NAMES ==
    [i \in 1..Len(ROOM_TO_CSV_ROOM_MAP_NON_MODIFIABLE) |->
        MarkNonModifiable(ROOM_TO_CSV_ROOM_MAP_NON_MODIFIABLE[i])]

(***************************************************************************)
(* State                                                                   *)
(***************************************************************************)
VARIABLES
    pod,        \* the rooms behind the BDK: attributes, bot membership, bot ownership
    streams,    \* update_rooms: the streams it is handed
    settings,   \* the settings the caller asks for
    pre_check,  \* the pre_check flag the caller passes
    pc,         \* "idle" before the call, "call" inside update_room, "loop" between rooms, "done"
    next,       \* update_rooms: index of the next stream of the iteration
    stream_id,  \* the id of the room being updated
    results,    \* update_rooms: the list it returns
    stack,      \* the activations of update_room, outermost first
    trace,      \* the BDK calls of the top-level update_room, with their answers
                \* (in SpecSeq: the BDK calls in flight)
    before,     \* the room as it was when the top-level update_room started
    outcome,    \* how the top-level update_room ended
    log,        \* update_rooms: per room gone through, the log line that closes it
                \* (Updated, Skipped or error), whether get_room_info answered and
                \* the number of BDK update_room calls made for it
    rooms_csv,  \* update_rooms_from_csv: the input file, its header and its rows
    incoming_room_settings, \* update_rooms_from_csv: <<>> for None, else << settings >>
    row,        \* update_rooms_from_csv: the number of rows read
    out_file,   \* update_rooms_from_csv: the rows written to the output file
    args,       \* a helper function called on its own: its arguments
    returned,   \* a helper function called on its own: what its calls returned
    field_names, \* the list object the module binds to CSV_STREAM_FIELD_NAMES
    exit_code   \* modify_rooms.py: <<>> while the process runs, else << its exit status >>

\* the state of update_rooms_from_csv
csv_vars == << rooms_csv, incoming_room_settings, row, out_file >>

\* the state of a helper function called on its own
fn_vars == << args, returned >>

\* the state of the process: the module-level list and how the process ended
process_vars == << field_names, exit_code >>

vars == << pod, streams, settings, pre_check, pc, next, stream_id, results,
           stack, trace, before, outcome, log, csv_vars, fn_vars, process_vars >>

\* no CSV file is being processed
NoCsv ==
    /\ rooms_csv = [header |-> {}, rows |-> <<>>]
    /\ incoming_room_settings = <<>>
    /\ row = 0
    /\ out_file = <<>>

\* the module has just been imported and the process runs
NoProcess ==
    /\ field_names = CSV_STREAM_FIELD_NAMES
    /\ exit_code = <<>>

\* no helper function is called on its own
NoFn ==
    /\ args = <<>>
    /\ returned = <<>>

NoDetail == [id |-> <<>>, room_attributes |-> V3RoomAttributes, kind |-> "none"]
NoSignal == [kind |-> "none", error |-> "", detail |-> NoDetail]
ReturnSig(detail) == [kind |-> "return", error |-> "", detail |-> detail]
RaiseSig(e) == [kind |-> "raise", error |-> e, detail |-> NoDetail]

\* a fresh activation of update_room
Frame(check) ==
    [pc |-> IF check THEN "get_room_info" ELSE "update_room",
     err |-> "", inner_err |-> "", updated_stream |-> NoDetail]

Top(stk) == stk[Len(stk)]
Pop(stk) == SubSeq(stk, 1, Len(stk) - 1)

\* where a step of update_room leaves the room, the activations and, once the
\* outermost activation has ended, what it returned or raised
Continue(room, stk) == [room |-> room, stack |-> stk, out |-> NoSignal]

\* the variables of update_room and update_rooms but pc
run_vars == << pod, streams, settings, pre_check, next, stream_id, results,
               stack, trace, before, outcome, log >>

\* neither update_room nor update_rooms is called
NoRun ==
    /\ pod = InitialPod
    /\ streams = <<>>
    /\ settings = V3RoomAttributes
    /\ pre_check = FALSE
    /\ next = 1
    /\ stream_id = <<>>
    /\ results = <<>>
    /\ stack = <<>>
    /\ trace = <<>>
    /\ before = InitialPod[<<"a", "-">>]
    /\ outcome = NoSignal
    /\ log = <<>>

(***************************************************************************)
(* Exception handlers of update_room                                       *)
(***************************************************************************)
RECURSIVE Deliver(_, _, _)
RECURSIVE InnerExcept(_, _, _, _)

\* the inner except with line 388 handing inner_err to the handler: the
\* error of the step that failed is raised
InnerExcept_RaisesInner(room, stk, f, inner_err) ==
    IF HasBody(inner_err) /\ inner_err = NOT_ROOM_MEMBER_MESSAGE
    THEN Continue(room, Append(stk, [f EXCEPT !.pc = "add", !.inner_err = inner_err]))
    ELSE Deliver(room, stk, RaiseSig(inner_err))

\* "except Exception as inner_err" of update_room, in activation f above the
\* callers stk: the membership path starts on NOT_ROOM_MEMBER_MESSAGE, anything
\* else ends in _update_room_exception_handler(stream_id, err)
InnerExcept(room, stk, f, inner_err) ==
    IF HasBody(inner_err) /\ inner_err = NOT_ROOM_MEMBER_MESSAGE
    THEN Continue(room, Append(stk, [f EXCEPT !.pc = "add", !.inner_err = inner_err]))
    ELSE Deliver(room, stk, RaiseSig(f.err))

\* an activation has returned or raised: hand the signal to the activation
\* that awaits it, or to the caller of the outermost update_room
Deliver(room, stk, sig) ==
    IF stk = <<>> THEN [room |-> room, stack |-> <<>>, out |-> sig]
    ELSE LET f == Top(stk) IN
         IF sig.kind = "return"
         THEN Continue(room, Append(Pop(stk),
                  [f EXCEPT !.pc = IF f.pc = "retry1" THEN "demote" ELSE "remove",
                            !.updated_stream = sig.detail]))
         ELSE IF f.pc = "retry1"
              THEN InnerExcept(room, Pop(stk), f, sig.error)
              ELSE Deliver(room, Pop(stk), RaiseSig(f.err))

Goto(room, stk, label) == Continue(room, Append(Pop(stk), [Top(stk) EXCEPT !.pc = label]))
Return(room, stk, detail) == Deliver(room, Pop(stk), ReturnSig(detail))
Raise(room, stk, e) == Deliver(room, Pop(stk), RaiseSig(e))

\* _update_room_exception_handler: logs the reason and raises the exception again
_update_room_exception_handler(room, stk, exception) == Raise(room, stk, exception)

\* the handler starting the recovery on NOT_ROOM_MEMBER_MESSAGE as well
OuterExcept_AlsoMember(room, stk, err) ==
    IF ~HasBody(err) THEN Raise(room, stk, ATTRIBUTE_ERROR)
    ELSE IF err \in { NOT_ROOM_OWNER_MESSAGE, NOT_ROOM_MEMBER_MESSAGE }
         THEN Continue(room, Append(Pop(stk), [Top(stk) EXCEPT !.pc = "promote1", !.err = err]))
         ELSE _update_room_exception_handler(room, stk, err)

\* "except Exception as err" of update_room
OuterExcept(room, stk, err) ==
    IF ~HasBody(err) THEN Raise(room, stk, ATTRIBUTE_ERROR)
    ELSE IF err = NOT_ROOM_OWNER_MESSAGE
         THEN Continue(room, Append(Pop(stk), [Top(stk) EXCEPT !.pc = "promote1", !.err = err]))
         ELSE _update_room_exception_handler(room, stk, err)

\* the retry as "await self.update_room(stream_id, settings)": pre_check is
\* left to its default, True
CallUpdateRoom_PreChecks(room, stk, wait) ==
    LET waiting == Append(Pop(stk), [Top(stk) EXCEPT !.pc = wait]) IN
    IF Len(stk) < MaxDepth
    THEN Continue(room, Append(waiting, Frame(TRUE)))
    ELSE Deliver(room, waiting, RaiseSig(RECURSION_ERROR))

\* "await self.update_room(stream_id, settings, False)", awaited at label wait
CallUpdateRoom(room, stk, wait) ==
    LET waiting == Append(Pop(stk), [Top(stk) EXCEPT !.pc = wait]) IN
    IF Len(stk) < MaxDepth
    THEN Continue(room, Append(waiting, Frame(FALSE)))
    ELSE Deliver(room, waiting, RaiseSig(RECURSION_ERROR))

(***************************************************************************)
(* The steps of update_room: one BDK call, answered by res, and the code   *)
(* that follows it up to the next BDK call                                 *)
(***************************************************************************)
\* the step going on to the update whatever the pre-check finds
get_room_info_NoSkip(id, room, stk, res) ==
    IF res = OK THEN Goto(room, stk, "update_room")
    ELSE OuterExcept(room, stk, res)

\* get_room_info, then the pre-check
get_room_info(id, room, stk, res) ==
    IF res = OK
    THEN IF _check_room_modified(room.room_attributes, settings) = FALSE
         THEN Return(room, stk, [id |-> id, room_attributes |-> room.room_attributes,
                                 kind |-> "Skipped"])
         ELSE Goto(room, stk, "update_room")
    ELSE OuterExcept(room, stk, res)

\* bdk.streams().update_room
update_room(id, room, stk, res) ==
    IF res = OK
    THEN LET updated == [room EXCEPT !.room_attributes =
                            ApplyAttributes(room.room_attributes, settings)] IN
         Return(updated, stk, [id |-> id, room_attributes |-> updated.room_attributes,
                               kind |-> "Updated"])
    ELSE OuterExcept(room, stk, res)

\* _promote_self_to_owner; an owner of a room is one of its members
_promote_self_to_owner(room, res) ==
    IF res = OK THEN [room EXCEPT !.member = TRUE, !.owner = TRUE] ELSE room

\* the promotion path demoting the bot as a clean-up whenever the promotion
\* is refused
_promote_self_and_update_room_DemotesOnRefusal(id, room, stk, res) ==
    IF res = OK THEN CallUpdateRoom(_promote_self_to_owner(room, res), stk, "retry1")
    ELSE Goto(room, stk, "demote")

\* _promote_self_and_update_room
_promote_self_and_update_room(id, room, stk, res) ==
    IF res = OK THEN CallUpdateRoom(_promote_self_to_owner(room, res), stk, "retry1")
    ELSE InnerExcept(room, Pop(stk), Top(stk), res)

\* the step taking the bot out of the room instead of demoting it
_demote_self_for_room_Removes(id, room, stk, res) ==
    IF res = OK
    THEN Return([room EXCEPT !.member = FALSE, !.owner = FALSE], stk, Top(stk).updated_stream)
    ELSE IF ~HasBody(res) THEN InnerExcept(room, Pop(stk), Top(stk), ATTRIBUTE_ERROR)
    ELSE IF res = NOT_ABLE_TO_DEMOTE_ONLY_OWNER THEN Return(room, stk, Top(stk).updated_stream)
    ELSE InnerExcept(room, Pop(stk), Top(stk), res)

\* the step raising every refusal, the last owner's too
_demote_self_for_room_Raises(id, room, stk, res) ==
    IF res = OK THEN Return([room EXCEPT !.owner = FALSE], stk, Top(stk).updated_stream)
    ELSE IF ~HasBody(res) THEN InnerExcept(room, Pop(stk), Top(stk), ATTRIBUTE_ERROR)
    ELSE InnerExcept(room, Pop(stk), Top(stk), res)

\* _demote_self_for_room after the promotion path's retry returned
_demote_self_for_room(id, room, stk, res) ==
    IF res = OK THEN Return([room EXCEPT !.owner = FALSE], stk, Top(stk).updated_stream)
    ELSE IF ~HasBody(res) THEN InnerExcept(room, Pop(stk), Top(stk), ATTRIBUTE_ERROR)
    ELSE IF res = NOT_ABLE_TO_DEMOTE_ONLY_OWNER THEN Return(room, stk, Top(stk).updated_stream)
    ELSE InnerExcept(room, Pop(stk), Top(stk), res)

\* the step going on to the retry without promoting the bot
_add_self_to_room_NoPromote(id, room, stk, res) ==
    IF res = OK THEN CallUpdateRoom([room EXCEPT !.member = TRUE], stk, "retry2")
    ELSE IF ~HasBody(res) THEN _update_room_exception_handler(room, stk, Top(stk).err)
    ELSE IF res = NOT_ABLE_TO_JOIN_MULTILATERAL_ROOMS THEN Goto(room, stk, "promote2")
    ELSE _update_room_exception_handler(room, stk, Top(stk).err)

\* _add_self_to_room, first step of _add_self_and_update_room
_add_self_to_room(id, room, stk, res) ==
    IF res = OK THEN Goto([room EXCEPT !.member = TRUE], stk, "promote2")
    ELSE IF ~HasBody(res) THEN _update_room_exception_handler(room, stk, Top(stk).err)
    ELSE IF res = NOT_ABLE_TO_JOIN_MULTILATERAL_ROOMS THEN Goto(room, stk, "promote2")
    ELSE _update_room_exception_handler(room, stk, Top(stk).err)

\* second and third step of _add_self_and_update_room
_add_self_and_update_room(id, room, stk, res) ==
    IF res = OK THEN CallUpdateRoom(_promote_self_to_owner(room, res), stk, "retry2")
    ELSE _update_room_exception_handler(room, stk, Top(stk).err)

\* _remove_self_from_room after the membership path's retry returned; a bot
\* outside the room owns nothing in it
_remove_self_from_room(id, room, stk, res) ==
    IF res = OK
    THEN Return([room EXCEPT !.member = FALSE, !.owner = FALSE], stk, Top(stk).updated_stream)
    ELSE _update_room_exception_handler(room, stk, Top(stk).err)

\* the BDK call an activation at label makes
OpOf(label) ==
    CASE label = "promote1" -> "promote"
      [] label = "promote2" -> "promote"
      [] OTHER -> label

\* the step of the activation on top of stk
BDKStep(id, room, stk, res) ==
    LET label == Top(stk).pc IN
    CASE label = "get_room_info" -> get_room_info(id, room, stk, res)
      [] label = "update_room" -> update_room(id, room, stk, res)
      [] label = "promote1" -> _promote_self_and_update_room(id, room, stk, res)
      [] label = "demote" -> _demote_self_for_room(id, room, stk, res)
      [] label = "add" -> _add_self_to_room(id, room, stk, res)
      [] label = "promote2" -> _add_self_and_update_room(id, room, stk, res)
      [] OTHER -> _remove_self_from_room(id, room, stk, res)

(***************************************************************************)
(* One call of update_room, BDK call by BDK call                           *)
(***************************************************************************)
Init ==
    /\ pod = InitialPod
    /\ streams = <<>>
    /\ settings \in SettingsChoices
    /\ pre_check \in BOOLEAN
    /\ pc = "idle"
    /\ next = 1
    /\ stream_id \in RawIds
    /\ results = <<>>
    /\ stack = <<>>
    /\ trace = <<>>
    /\ before = InitialPod[_make_b64_id_safe(stream_id)]
    /\ outcome = NoSignal
    /\ log = <<>>
    /\ NoCsv
    /\ NoProcess
    /\ NoFn

\* update_room is called: the id is made URL safe and the activation starts
Call ==
    /\ pc = "idle"
    /\ stream_id' = _make_b64_id_safe(stream_id)
    /\ before' = pod[stream_id']
    /\ stack' = << Frame(pre_check) >>
    /\ pc' = "call"
    /\ UNCHANGED << pod, streams, settings, pre_check, next, results, trace, outcome, log >>
    /\ UNCHANGED << csv_vars, fn_vars, process_vars >>

\* update_room is running and its innermost activation is at label
Running(label) == pc = "call" /\ stack # <<>> /\ Top(stack).pc = label

\* the innermost activation's BDK call is answered by res
Answered(res) ==
    LET r == BDKStep(stream_id, pod[stream_id], stack, res) IN
    /\ pod' = [pod EXCEPT ![stream_id] = r.room]
    /\ stack' = r.stack
    /\ trace' = Append(trace, [op |-> OpOf(Top(stack).pc), res |-> res])
    /\ outcome' = r.out
    /\ pc' = IF r.out.kind = "none" THEN "call" ELSE "done"
    /\ UNCHANGED << streams, settings, pre_check, next, stream_id, results, before, log >>
    /\ UNCHANGED << csv_vars, fn_vars, process_vars >>

\* the pre-check: get_room_info and _check_room_modified
GetRoomInfo ==
    /\ Running("get_room_info")
    /\ \E res \in Responses("get_room_info") : Answered(res)

\* bdk.streams().update_room
UpdateRoom ==
    /\ Running("update_room")
    /\ \E res \in Responses("update_room") : Answered(res)

\* the promotion path: promote, then the retry
PromoteSelfAndUpdateRoom ==
    /\ Running("promote1")
    /\ \E res \in Responses("promote") : Answered(res)

\* the promotion path after the retry: demote
DemoteSelfForRoom ==
    /\ Running("demote")
    /\ \E res \in Responses("demote") : Answered(res)

\* the membership path: add
AddSelfToRoom ==
    /\ Running("add")
    /\ \E res \in Responses("add") : Answered(res)

\* the membership path: promote, then the retry
AddSelfAndUpdateRoom ==
    /\ Running("promote2")
    /\ \E res \in Responses("promote") : Answered(res)

\* the membership path after the retry: remove
RemoveSelfFromRoom ==
    /\ Running("remove")
    /\ \E res \in Responses("remove") : Answered(res)

Next ==
    \/ Call
    \/ GetRoomInfo
    \/ UpdateRoom
    \/ PromoteSelfAndUpdateRoom
    \/ DemoteSelfForRoom
    \/ AddSelfToRoom
    \/ AddSelfAndUpdateRoom
    \/ RemoveSelfFromRoom

Spec == Init /\ [][Next]_vars

(***************************************************************************)
(* update_rooms: one action per room of the iteration                      *)
(***************************************************************************)
\* every way the activations of c can go on by one BDK call
Moves(id, c) ==
    { LET r == BDKStep(id, c.room, c.stack, res)
          op == OpOf(Top(c.stack).pc) IN
      [room |-> r.room, stack |-> r.stack, out |-> r.out,
       fetched |-> c.fetched \/ (op = "get_room_info" /\ res = OK),
       update_calls |-> c.update_calls + (IF op = "update_room" THEN 1 ELSE 0)]
      : res \in Responses(OpOf(Top(c.stack).pc)) }

RECURSIVE RunAll(_, _)
RunAll(id, S) ==
    LET running == { c \in S : c.out.kind = "none" } IN
    IF running = {} THEN S
    ELSE RunAll(id, (S \ running) \cup UNION { Moves(id, c) : c \in running })

\* every way "await self.update_room(stream_id, settings, pre_check)" can end
UpdateRoomEnds(id, room, check) ==
    RunAll(id, { [room |-> room, stack |-> << Frame(check) >>, out |-> NoSignal,
                  fetched |-> FALSE, update_calls |-> 0] })

InitBulk ==
    /\ pod = InitialPod
    /\ streams \in SeqsUpTo(RawIds, MaxStreams)
    /\ settings \in SettingsChoices
    /\ pre_check \in BOOLEAN
    /\ pc = "loop"
    /\ next = 1
    /\ stream_id = <<>>
    /\ results = <<>>
    /\ stack = <<>>
    /\ trace = <<>>
    /\ before = InitialPod[<<"a", "-">>]
    /\ outcome = NoSignal
    /\ log = <<>>
    /\ NoCsv
    /\ NoProcess
    /\ NoFn

\* the round without its try: an error of update_room ends update_rooms
UpdateRooms_StopsOnError ==
    /\ pc = "loop"
    /\ next <= Len(streams)
    /\ LET id == _make_b64_id_safe(_make_b64_id_safe(streams[next])) IN
       \E c \in UpdateRoomEnds(id, pod[id], pre_check) :
        /\ stream_id' = id
        /\ pod' = [pod EXCEPT ![id] = c.room]
        /\ results' = IF c.out.kind = "return" THEN Append(results, c.out.detail) ELSE results
        /\ log' = Append(log, [id |-> id,
                               line |-> IF c.out.kind = "return" THEN c.out.detail.kind
                                        ELSE "error",
                               fetched |-> c.fetched,
                               update_calls |-> c.update_calls])
        /\ pc' = IF c.out.kind = "return" THEN "loop" ELSE "done"
    /\ next' = next + 1
    /\ UNCHANGED << streams, settings, pre_check, stack, trace, before, outcome >>
    /\ UNCHANGED << csv_vars, fn_vars, process_vars >>

\* one round of "async for stream in streams": update_room for the stream, its
\* result appended to results, or the error logged
UpdateRooms ==
    /\ pc = "loop"
    /\ next <= Len(streams)
    /\ LET id == _make_b64_id_safe(_make_b64_id_safe(streams[next])) IN
       \E c \in UpdateRoomEnds(id, pod[id], pre_check) :
        /\ stream_id' = id
        /\ pod' = [pod EXCEPT ![id] = c.room]
        /\ results' = IF c.out.kind = "return" THEN Append(results, c.out.detail) ELSE results
        /\ log' = Append(log, [id |-> id,
                               line |-> IF c.out.kind = "return" THEN c.out.detail.kind
                                        ELSE "error",
                               fetched |-> c.fetched,
                               update_calls |-> c.update_calls])
    /\ next' = next + 1
    /\ UNCHANGED << streams, settings, pre_check, pc, stack, trace, before, outcome >>
    /\ UNCHANGED << csv_vars, fn_vars, process_vars >>

\* the iteration is exhausted: "return results"
ReturnResults ==
    /\ pc = "loop"
    /\ next > Len(streams)
    /\ pc' = "done"
    /\ UNCHANGED << pod, streams, settings, pre_check, next, stream_id, results,
                    stack, trace, before, outcome, log >>
    /\ UNCHANGED << csv_vars, fn_vars, process_vars >>

NextBulk ==
    \/ UpdateRooms
    \/ ReturnResults

SpecBulk == InitBulk /\ [][NextBulk]_vars

(***************************************************************************)
(* update_rooms, BDK call by BDK call: a call is issued, the coroutine     *)
(* awaits it, and it is answered. In SpecSeq trace holds the calls in      *)
(* flight, each with the index of the stream it was issued for.            *)
(***************************************************************************)
InitSeq == InitBulk

\* "async for stream in streams" hands out the next stream although the call
\* awaited for the stream before is still in flight, as a loop that spawned a
\* task per stream would
NextStream_NoAwait ==
    /\ pc \in { "loop", "await" }
    /\ LET n == IF pc = "await" THEN next + 1 ELSE next IN
        /\ n <= Len(streams)
        /\ next' = n
        /\ stream_id' = _make_b64_id_safe(_make_b64_id_safe(streams[n]))
    /\ stack' = << Frame(pre_check) >>
    /\ pc' = "call"
    /\ UNCHANGED << pod, streams, settings, pre_check, results, trace, before, outcome, log >>
    /\ UNCHANGED << csv_vars, fn_vars, process_vars >>

\* "async for stream in streams" hands out the next stream and update_room is
\* called for it
NextStream ==
    /\ pc = "loop"
    /\ next <= Len(streams)
    /\ stream_id' = _make_b64_id_safe(_make_b64_id_safe(streams[next]))
    /\ stack' = << Frame(pre_check) >>
    /\ pc' = "call"
    /\ UNCHANGED << pod, streams, settings, pre_check, next, results, trace, before,
                    outcome, log >>
    /\ UNCHANGED << csv_vars, fn_vars, process_vars >>

\* the innermost activation of update_room issues its BDK call and awaits it
IssueCall ==
    /\ pc = "call"
    /\ trace' = Append(trace, [room |-> next, op |-> OpOf(Top(stack).pc)])
    /\ pc' = "await"
    /\ UNCHANGED << pod, streams, settings, pre_check, next, stream_id, results, stack,
                    before, outcome, log >>
    /\ UNCHANGED << csv_vars, fn_vars, process_vars >>

\* the BDK call awaited returns or fails, and update_room goes on to its next
\* BDK call or ends; when it ends the round ends: the result is appended to
\* results, or the error is logged
AnswerCall ==
    /\ pc = "await"
    /\ trace # <<>>
    /\ \E res \in Responses(OpOf(Top(stack).pc)) :
        LET r == BDKStep(stream_id, pod[stream_id], stack, res) IN
        /\ pod' = [pod EXCEPT ![stream_id] = r.room]
        /\ stack' = r.stack
        /\ trace' = SubSeq(trace, 1, Len(trace) - 1)
        /\ IF r.out.kind = "none"
           THEN /\ pc' = "call"
                /\ UNCHANGED << next, results, log >>
           ELSE /\ pc' = "loop"
                /\ next' = next + 1
                /\ results' = IF r.out.kind = "return" THEN Append(results, r.out.detail)
                              ELSE results
                /\ log' = Append(log, [id |-> stream_id,
                                       line |-> IF r.out.kind = "return" THEN r.out.detail.kind
                                                ELSE "error"])
    /\ UNCHANGED << streams, settings, pre_check, stream_id, before, outcome >>
    /\ UNCHANGED << csv_vars, fn_vars, process_vars >>

NextSeq ==
    \/ NextStream
    \/ IssueCall
    \/ AnswerCall
    \/ ReturnResults

SpecSeq == InitSeq /\ [][NextSeq]_vars

(***************************************************************************)
(* update_rooms_by_id                                                      *)
(***************************************************************************)
\* what "async for" raises on an object without __aiter__, by its text
ASYNC_FOR_TYPE_ERROR == "'async for' requires an object with __aiter__ method, got list"

\* update_rooms_by_id is handed the stream ids as a list, as its signature
\* says, or as an asynchronous iterator; args holds which
InitById ==
    /\ pod = InitialPod
    /\ streams \in SeqsUpTo(RawIds, MaxStreams)
    /\ settings \in SettingsChoices
    /\ pre_check \in BOOLEAN
    /\ pc = "loop"
    /\ next = 1
    /\ stream_id = <<>>
    /\ results = <<>>
    /\ stack = <<>>
    /\ trace = <<>>
    /\ before = InitialPod[<<"a", "-">>]
    /\ outcome = NoSignal
    /\ log = <<>>
    /\ args \in { << "list" >>, << "aiter" >> }
    /\ returned = <<>>
    /\ NoCsv
    /\ NoProcess

\* "async for stream in streams": on a list the statement raises a TypeError
\* before the first round, outside the try of the loop's body, and
\* update_rooms_by_id raises it; on an asynchronous iterator one round is
\* made: update_room for the id, its result appended to results, or the
\* error logged
UpdateRoomsById ==
    /\ pc = "loop"
    /\ IF args[1] = "list"
       THEN /\ outcome' = RaiseSig(ASYNC_FOR_TYPE_ERROR)
            /\ pc' = "done"
            /\ UNCHANGED << pod, next, stream_id, results, log >>
       ELSE /\ next <= Len(streams)
            /\ LET id == _make_b64_id_safe(_make_b64_id_safe(streams[next])) IN
               \E c \in UpdateRoomEnds(id, pod[id], pre_check) :
                /\ stream_id' = id
                /\ pod' = [pod EXCEPT ![id] = c.room]
                /\ results' = IF c.out.kind = "return" THEN Append(results, c.out.detail)
                              ELSE results
                /\ log' = Append(log, [id |-> id,
                                       line |-> IF c.out.kind = "return" THEN c.out.detail.kind
                                                ELSE "error",
                                       fetched |-> c.fetched,
                                       update_calls |-> c.update_calls])
            /\ next' = next + 1
            /\ UNCHANGED << pc, outcome >>
    /\ UNCHANGED << streams, settings, pre_check, stack, trace, before >>
    /\ UNCHANGED << csv_vars, fn_vars, process_vars >>

\* the asynchronous iterator is exhausted: "return results"
ReturnResultsById ==
    /\ pc = "loop"
    /\ args[1] = "aiter"
    /\ next > Len(streams)
    /\ outcome' = ReturnSig(NoDetail)
    /\ pc' = "done"
    /\ UNCHANGED << pod, streams, settings, pre_check, next, stream_id, results,
                    stack, trace, before, log >>
    /\ UNCHANGED << csv_vars, fn_vars, process_vars >>

NextById ==
    \/ UpdateRoomsById
    \/ ReturnResultsById

SpecById == InitById /\ [][NextById]_vars

(***************************************************************************)
(* CSV rows and their conversion from and to room attributes               *)
(***************************************************************************)
\* str.startswith, str.endswith and the in operator on sequences of characters
startswith(s, prefix) ==
    Len(s) >= Len(prefix) /\ SubSeq(s, 1, Len(prefix)) = prefix

endswith(s, suffix) ==
    Len(s) >= Len(suffix) /\ SubSeq(s, Len(s) - Len(suffix) + 1, Len(s)) = suffix

contains(s, sub) ==
    \E i \in 1..(Len(s) - Len(sub) + 1) : SubSeq(s, i, i + Len(sub) - 1) = sub

\* the attribute types of CSV_ROOM_TO_ROOM_ATTRIBUTES_MAP, character by character
TypeStringRequired == << "s", "t", "r", "i", "n", "g", "*" >>
TypeString == << "s", "t", "r", "i", "n", "g" >>
TypeBool == << "b", "o", "o", "l" >>
TypeBoolOnlyTrue == << "b", "o", "o", "l", "+" >>
TypeStringB64 == << "s", "t", "r", "i", "n", "g", "_", "b", "6", "4" >>

CSV_ROOM_TO_ROOM_ATTRIBUTES_MAP ==
    [ name |-> [mapped_key |-> "name", type |-> TypeStringRequired],
      description |-> [mapped_key |-> "description", type |-> TypeString],
      membersCanInvite |-> [mapped_key |-> "members_can_invite", type |-> TypeBool],
      discoverable |-> [mapped_key |-> "discoverable", type |-> TypeBool],
      copyProtected |-> [mapped_key |-> "copy_protected", type |-> TypeBoolOnlyTrue],
      viewHistory |-> [mapped_key |-> "view_history", type |-> TypeBool],
      pinnedMessageId |-> [mapped_key |-> "pinned_message_id", type |-> TypeStringB64] ]

\* the error "raise None" raises, by its text
TYPE_ERROR == "exceptions must derive from BaseException"

\* str.strip, str.lower and str.upper on the texts of the model
strip(val) ==
    CASE val = "notes " -> "notes"
      [] val = " " -> ""
      [] val = " yes" -> "yes"
      [] val = "TRUE " -> "TRUE"
      [] OTHER -> val

lower(val) ==
    CASE val = "TRUE" -> "true"
      [] val = "FALSE" -> "false"
      [] val = "Yes" -> "yes"
      [] val = "Y" -> "y"
      [] val = "YES" -> "yes"
      [] val = "T" -> "t"
      [] val = "True" -> "true"
      [] val = "ON" -> "on"
      [] val = "On" -> "on"
      [] val = "N" -> "n"
      [] val = "NO" -> "no"
      [] val = "No" -> "no"
      [] val = "F" -> "f"
      [] val = "False" -> "false"
      [] val = "OFF" -> "off"
      [] val = "Off" -> "off"
      [] val = "TRUE " -> "true "
      [] val = "tRuE" -> "true"
      [] val = "nO" -> "no"
      [] OTHER -> val

upper(val) ==
    CASE val = "notes" -> "NOTES"
      [] val = "Yes" -> "YES"
      [] val = "y" -> "Y"
      [] val = "yes" -> "YES"
      [] val = "t" -> "T"
      [] val = "true" -> "TRUE"
      [] val = "True" -> "TRUE"
      [] val = "on" -> "ON"
      [] val = "On" -> "ON"
      [] val = "n" -> "N"
      [] val = "no" -> "NO"
      [] val = "No" -> "NO"
      [] val = "f" -> "F"
      [] val = "false" -> "FALSE"
      [] val = "False" -> "FALSE"
      [] val = "off" -> "OFF"
      [] val = "Off" -> "OFF"
      [] val = "maybe" -> "MAYBE"
      [] val = "notes " -> "NOTES "
      [] val = " yes" -> " YES"
      [] val = "tRuE" -> "TRUE"
      [] val = "nO" -> "NO"
      [] OTHER -> val

\* _make_b64_id_safe on the cell texts of the model
MakeB64IdSafeText(val) ==
    CASE val = "m+g=" -> "m-g"
      [] val = "x/y==" -> "x_y"
      [] OTHER -> val

_bool_to_string(val) ==
    IF val \in BoolValues
    THEN (IF val = "True" THEN "true" ELSE "false")
    ELSE val

\* returns the boolean, or TYPE_ERROR for the "raise None" of its last branch
_string_to_bool(val) ==
    LET v == lower(val) IN
    IF v \in { "y", "yes", "t", "true", "on", "1" } THEN "True"
    ELSE IF v \in { "n", "no", "f", "false", "off", "0" } THEN "False"
    ELSE TYPE_ERROR

\* the special cases of a cell that is not None
SpecialCases(attribute_type, val) ==
    IF startswith(attribute_type, TypeBool)
    THEN LET b == _string_to_bool(val) IN
         IF b # TYPE_ERROR /\ endswith(attribute_type, << "+" >>) THEN Null ELSE b
    ELSE IF contains(attribute_type, << "_", "b", "6", "4", "_" >>)
         THEN MakeB64IdSafeText(val)
         ELSE val

\* what the loop of _csv_room_settings_to_v3_room_attributes makes of the cell
\* of column attribute: the value to set, Null to set nothing, TYPE_ERROR
CellValue(attribute, cell) ==
    LET attribute_type == CSV_ROOM_TO_ROOM_ATTRIBUTES_MAP[attribute].type
        stripped == strip(cell)
        emptied == IF stripped = "" THEN Null
                   ELSE IF stripped \in { "\"\"", "''" } THEN ""
                   ELSE stripped
        required == IF endswith(attribute_type, << "*" >>) /\ emptied = "" THEN Null
                    ELSE emptied
    IN  IF required # Null THEN SpecialCases(attribute_type, required) ELSE Null

\* the columns of room_row that are mapped to attribute_name
ColumnsOf(room_row, attribute_name) ==
    { attribute \in DOMAIN room_row \cap DOMAIN CSV_ROOM_TO_ROOM_ATTRIBUTES_MAP :
        CSV_ROOM_TO_ROOM_ATTRIBUTES_MAP[attribute].mapped_key = attribute_name }

\* raised: _string_to_bool raised on some cell; else room_attributes is the
\* V3RoomAttributes the function returns
_csv_room_settings_to_v3_room_attributes(room_row) ==
    [ raised |-> \E attribute \in DOMAIN room_row \cap DOMAIN CSV_ROOM_TO_ROOM_ATTRIBUTES_MAP :
                    CellValue(attribute, room_row[attribute]) = TYPE_ERROR,
      room_attributes |->
        [ attribute_name \in AttributeNames |->
            IF \E attribute \in ColumnsOf(room_row, attribute_name) :
                    CellValue(attribute, room_row[attribute]) # Null
            THEN CellValue(CHOOSE attribute \in ColumnsOf(room_row, attribute_name) : TRUE,
                           room_row[CHOOSE attribute \in ColumnsOf(room_row, attribute_name) : TRUE])
            ELSE Absent ] ]

\* room: a V3RoomDetail, its id being that of room_system_info
_room_details_to_csv_dict(room) ==
    [ mapped_key \in { MappedKey[attribute] : attribute \in AttributeNames } |->
        LET attribute == CHOOSE a \in AttributeNames : MappedKey[a] = mapped_key
            value == IF attribute = "id" THEN room.id ELSE room.room_attributes[attribute]
        IN  IF attribute # "id" /\ value \in { Absent, Null } THEN ""
            ELSE IF attribute # "id" THEN _bool_to_string(value)
            ELSE value ]

(***************************************************************************)
(* update_rooms_from_csv: per row, the parsing and then the update         *)
(***************************************************************************)
\* the rooms behind the BDK when the file is exported and then read: those of
\* InitialPod, room a- with a description that ends with a blank
CsvPod ==
    [id \in RoomIds |->
        IF id = <<"a", "-">>
        THEN [InitialPod[id] EXCEPT !.room_attributes["description"] = "notes "]
        ELSE InitialPod[id]]

\* what get_room_info returns for a room
RoomDetail(id, room) == [id |-> id, room_attributes |-> room.room_attributes, kind |-> "Skipped"]

\* the row export_rooms_to_csv writes for a room of CsvPod
ExportedRow(id) == _room_details_to_csv_dict(RoomDetail(id, CsvPod[id]))

ExportedRows == { ExportedRow(id) : id \in RoomIds }

\* rows as users edit them: room a- with membersCanInvite off, copyProtected
\* on and the description cleared; room b_ under its raw id with a cell that
\* is no boolean; a row whose streamId cell is empty
EditedRows ==
    { [ExportedRow(<<"a", "-">>) EXCEPT !["membersCanInvite"] = "FALSE",
                                        !["copyProtected"] = "Yes",
                                        !["description"] = "\"\""],
      [ExportedRow(<<"b", "_">>) EXCEPT !["streamId"] = <<"b", "/", "=">>,
                                        !["membersCanInvite"] = "maybe"],
      [ExportedRow(<<"b", "_">>) EXCEPT !["streamId"] = <<>>,
                                        !["membersCanInvite"] = "true"] }

\* a row of a file whose header is header
Under(header, room) == [column \in header |-> room[column]]

\* the columns of a file with a streamId column, and of one without
Headers ==
    LET all == { CSV_STREAM_FIELD_NAMES[i] : i \in 1..Len(CSV_STREAM_FIELD_NAMES) } IN
    { all, all \ { "streamId" } }

\* the input files: a header and up to MaxRows rows under it
CsvFiles ==
    UNION { { [header |-> header, rows |-> rows] :
                rows \in SeqsUpTo({ Under(header, room) : room \in ExportedRows \cup EditedRows },
                                  MaxRows) } :
            header \in Headers }

\* the columns of the output file: fields
fields ==
    { CSV_STREAM_FIELD_NAMES[i] : i \in 1..Len(CSV_STREAM_FIELD_NAMES) }
        \cup { CSV_RESULTS_STREAM_FIELD_NAMES[i] : i \in 1..Len(CSV_RESULTS_STREAM_FIELD_NAMES) }

\* csv_writer.writerow(result): a missing column is written empty, a column
\* that is not in fields is ignored
writerow(result) ==
    [column \in fields |-> IF column \in DOMAIN result THEN result[column] ELSE ""]

\* result with result['status'] and, unless reason is <<>>, result['reason'] set
WithStatus(result, status, reason) ==
    [column \in DOMAIN result \cup { "status" } \cup (IF reason = <<>> THEN {} ELSE { "reason" }) |->
        IF column = "status" THEN status
        ELSE IF column = "reason" /\ reason # <<>> THEN reason[1]
        ELSE result[column]]

\* the reason of the except block: the message of the error's body or str(err);
\* errors are modelled by that text
Reason(err) == err

\* what a BDK call answers for an id that is no room of the pod
NoSuchRoomErrors == { UNKNOWN_MESSAGE, TRANSPORT_ERROR }

InitCsv ==
    /\ pc = "csv"
    /\ pod = CsvPod
    /\ rooms_csv \in CsvFiles
    /\ incoming_room_settings \in { <<>>, << [V3RoomAttributes EXCEPT !["copy_protected"] = "True"] >> }
    /\ pre_check \in BOOLEAN
    /\ row = 0
    /\ out_file = <<>>
    /\ settings = V3RoomAttributes
    /\ stream_id = <<>>
    /\ log = <<>>
    /\ streams = <<>>
    /\ next = 1
    /\ results = <<>>
    /\ stack = <<>>
    /\ trace = <<>>
    /\ before = InitialPod[<<"a", "-">>]
    /\ outcome = NoSignal
    /\ NoFn
    /\ NoProcess

\* what the loop logs for a row: the row's number, how it ended, whether a row
\* was written for it, whether the BDK was called for it, whether the loop's
\* pre-check fetched the room, whether the BDK's update_room was called, and
\* the room_settings built for it (<<>> if none)
LogEntry(n, line, written, bdk, fetched, update, room_settings) ==
    [row |-> n, line |-> line, written |-> written, bdk_called |-> bdk, fetched |-> fetched,
     update_called |-> update, room_settings |-> room_settings]

\* the row is written with status FAILURE: the except block of the loop
Failure(n, room, err, bdk, fetched, update, room_settings) ==
    /\ out_file' = Append(out_file, writerow(WithStatus(room, "FAILURE", << Reason(err) >>)))
    /\ log' = Append(log, LogEntry(n, "FAILURE", TRUE, bdk, fetched, update, room_settings))

\* the round's start with lines 211-216 reduced to the parsing branch: the
\* room_settings are parsed from the row whatever incoming_room_settings is
ReadRow_AlwaysParses ==
    /\ pc = "csv"
    /\ row < Len(rooms_csv.rows)
    /\ row' = row + 1
    /\ LET room == rooms_csv.rows[row + 1] IN
       IF "streamId" \notin DOMAIN room
       THEN /\ log' = Append(log, LogEntry(row + 1, "no stream id", FALSE, FALSE, FALSE, FALSE, <<>>))
            /\ pc' = "csv"
            /\ UNCHANGED << out_file, settings, stream_id >>
       ELSE LET safe == [room EXCEPT !["streamId"] = _make_b64_id_safe(room["streamId"])]
                parsed == _csv_room_settings_to_v3_room_attributes(safe)
            IN  /\ stream_id' = _make_b64_id_safe(safe["streamId"])
                /\ IF parsed.raised
                   THEN /\ Failure(row + 1, safe, TYPE_ERROR, FALSE, FALSE, FALSE, <<>>)
                        /\ pc' = "csv"
                        /\ UNCHANGED settings
                   ELSE /\ settings' = parsed.room_attributes
                        /\ pc' = "row"
                        /\ UNCHANGED << out_file, log >>
    /\ UNCHANGED << pod, rooms_csv, incoming_room_settings, pre_check, streams, next,
                    results, stack, trace, before, outcome, fn_vars, process_vars >>

\* the next row is read: its id is made URL safe and its room_settings are
\* parsed from the row or taken from incoming_room_settings
ReadRow ==
    /\ pc = "csv"
    /\ row < Len(rooms_csv.rows)
    /\ row' = row + 1
    /\ LET room == rooms_csv.rows[row + 1] IN
       IF "streamId" \notin DOMAIN room
       THEN /\ log' = Append(log, LogEntry(row + 1, "no stream id", FALSE, FALSE, FALSE, FALSE, <<>>))
            /\ pc' = "csv"
            /\ UNCHANGED << out_file, settings, stream_id >>
       ELSE LET safe == [room EXCEPT !["streamId"] = _make_b64_id_safe(room["streamId"])]
                parsed == _csv_room_settings_to_v3_room_attributes(safe)
            IN  /\ stream_id' = _make_b64_id_safe(safe["streamId"])
                /\ IF incoming_room_settings = <<>> /\ parsed.raised
                   THEN /\ Failure(row + 1, safe, TYPE_ERROR, FALSE, FALSE, FALSE, <<>>)
                        /\ pc' = "csv"
                        /\ UNCHANGED settings
                   ELSE /\ settings' = IF incoming_room_settings = <<>>
                                       THEN parsed.room_attributes
                                       ELSE incoming_room_settings[1]
                        /\ pc' = "row"
                        /\ UNCHANGED << out_file, log >>
    /\ UNCHANGED << pod, rooms_csv, incoming_room_settings, pre_check, streams, next,
                    results, stack, trace, before, outcome, fn_vars, process_vars >>

\* every way the rest of the round can end for the row read: ok is whether the
\* row ends SUCCESS or SKIPPED (the detail is then the room written) or
\* FAILURE (with the error), room is the room in the pod afterwards
RowEnd(ok, status, detail, err, room, fetched, update) ==
    [ok |-> ok, status |-> status, detail |-> detail, err |-> err, room |-> room,
     fetched |-> fetched, update_called |-> update]

\* "await self.update_room(stream_id, room_settings)": pre_check is left to
\* its default, True
UpdateRowEnds(id, room, fetched) ==
    { IF c.out.kind = "return"
      THEN RowEnd(TRUE, "SUCCESS", c.out.detail, "", c.room, fetched, c.update_calls > 0)
      ELSE RowEnd(FALSE, "FAILURE", NoDetail, c.out.error, c.room, fetched, c.update_calls > 0)
      : c \in UpdateRoomEnds(id, room, TRUE) }

\* the pre-check of the loop: get_room_info, answered by res, and
\* _check_room_modified
PreCheckedRowEnds(id, room, res) ==
    IF res # OK
    THEN { RowEnd(FALSE, "FAILURE", NoDetail, res, room, FALSE, FALSE) }
    ELSE IF _check_room_modified(room.room_attributes, settings)
         THEN UpdateRowEnds(id, room, TRUE)
         ELSE { RowEnd(TRUE, "SKIPPED", RoomDetail(id, room), "", room, TRUE, FALSE) }

\* stands for the room of an id that is no room of the pod
NoRoom == [room_attributes |-> V3RoomAttributes, member |-> FALSE, owner |-> FALSE]

\* every way the round can end once the row is read and parsed; for an id
\* that is no room of the pod the first BDK call fails, in the loop's pre-check
\* or in update_room's
RowEnds(id) ==
    IF id \notin RoomIds
    THEN { RowEnd(FALSE, "FAILURE", NoDetail,
                  IF pre_check THEN err
                  ELSE OuterExcept(NoRoom, << Frame(TRUE) >>, err).out.error,
                  NoRoom, FALSE, FALSE) : err \in NoSuchRoomErrors }
    ELSE IF pre_check
         THEN UNION { PreCheckedRowEnds(id, pod[id], res) : res \in Responses("get_room_info") }
         ELSE UpdateRowEnds(id, pod[id], FALSE)

\* the round without its except block's writerow: a row that fails is logged
\* and no row is written for it
UpdateFromRow_FailureNotWritten ==
    /\ pc = "row"
    /\ LET room == [rooms_csv.rows[row] EXCEPT
                        !["streamId"] = _make_b64_id_safe(rooms_csv.rows[row]["streamId"])] IN
       \E e \in RowEnds(stream_id) :
        /\ pod' = IF stream_id \in RoomIds THEN [pod EXCEPT ![stream_id] = e.room] ELSE pod
        /\ IF e.ok
           THEN /\ out_file' = Append(out_file,
                        writerow(WithStatus(_room_details_to_csv_dict(e.detail), e.status,
                                            IF e.status = "SKIPPED"
                                            THEN << "Current room settings matched" >>
                                            ELSE <<>>)))
                /\ log' = Append(log, LogEntry(row, e.status, TRUE, TRUE, e.fetched,
                                               e.update_called, << settings >>))
           ELSE /\ out_file' = out_file
                /\ log' = Append(log, LogEntry(row, "FAILURE", FALSE, TRUE, e.fetched,
                                               e.update_called, << settings >>))
    /\ pc' = "csv"
    /\ UNCHANGED << rooms_csv, incoming_room_settings, row, settings, stream_id, pre_check,
                    streams, next, results, stack, trace, before, outcome, fn_vars, process_vars >>

\* the rest of the round for the row read: the pre-check, the update and the
\* row written with its status, or the except block
UpdateFromRow ==
    /\ pc = "row"
    /\ LET room == [rooms_csv.rows[row] EXCEPT
                        !["streamId"] = _make_b64_id_safe(rooms_csv.rows[row]["streamId"])] IN
       \E e \in RowEnds(stream_id) :
        /\ pod' = IF stream_id \in RoomIds THEN [pod EXCEPT ![stream_id] = e.room] ELSE pod
        /\ IF e.ok
           THEN /\ out_file' = Append(out_file,
                        writerow(WithStatus(_room_details_to_csv_dict(e.detail), e.status,
                                            IF e.status = "SKIPPED"
                                            THEN << "Current room settings matched" >>
                                            ELSE <<>>)))
                /\ log' = Append(log, LogEntry(row, e.status, TRUE, TRUE, e.fetched,
                                               e.update_called, << settings >>))
           ELSE Failure(row, room, e.err, TRUE, e.fetched, e.update_called, << settings >>)
    /\ pc' = "csv"
    /\ UNCHANGED << rooms_csv, incoming_room_settings, row, settings, stream_id, pre_check,
                    streams, next, results, stack, trace, before, outcome, fn_vars, process_vars >>

\* the file is exhausted: update_rooms_from_csv returns
CloseFiles ==
    /\ pc = "csv"
    /\ row = Len(rooms_csv.rows)
    /\ pc' = "done"
    /\ UNCHANGED << run_vars, csv_vars, fn_vars, process_vars >>

NextCsv ==
    \/ ReadRow
    \/ UpdateFromRow
    \/ CloseFiles

SpecCsv == InitCsv /\ [][NextCsv]_vars

(***************************************************************************)
(* The bulk drivers: update_rooms or update_rooms_from_csv                 *)
(***************************************************************************)
InitBatch == InitBulk \/ InitCsv

NextBatch == NextBulk \/ NextCsv

SpecBatch == InitBatch /\ [][NextBatch]_vars

(***************************************************************************)
(* Helper functions called on their own                                    *)
(***************************************************************************)
\* room attributes as get_room_info hands them over: the pod leaves out what
\* the room has no value for (a description, a pinned message)
RoomStates ==
    { [Attributes(m, p) EXCEPT !["description"] = d] :
        m \in { "True", "False" }, p \in { Absent, "old", "msg" }, d \in { Absent, "notes" } }

\* settings as callers build them: an attribute is not set, set to None or
\* set to a value
DesiredChoices ==
    { [V3RoomAttributes EXCEPT !["members_can_invite"] = m,
                               !["pinned_message_id"] = p,
                               !["discoverable"] = d] :
        m \in { Absent, Null, "True", "False" }, p \in { Absent, Null, "msg" },
        d \in { Absent, Null } }

InitModified ==
    /\ pc = "idle"
    /\ args \in { << old, new >> : old \in RoomStates, new \in DesiredChoices }
    /\ returned = <<>>
    /\ NoRun
    /\ NoCsv
    /\ NoProcess

\* _check_room_modified(old_settings, new_settings) is called and returns
CheckRoomModified ==
    /\ pc = "idle"
    /\ returned' = << _check_room_modified(args[1], args[2]) >>
    /\ pc' = "done"
    /\ UNCHANGED << args, run_vars, csv_vars, process_vars >>

NextModified == CheckRoomModified

SpecModified == InitModified /\ [][NextModified]_vars

\* the characters of the ids handed to _make_b64_id_safe: a letter, the two
\* characters it replaces, the padding and a whitespace
Chars == { "a", "+", "/", "=", " " }

\* the ids handed to _make_b64_id_safe
Ids == SeqsUpTo(Chars, MaxLen)

InitIds ==
    /\ pc = "idle"
    /\ args \in { << id >> : id \in Ids }
    /\ returned = <<>>
    /\ NoRun
    /\ NoCsv
    /\ NoProcess

\* _make_b64_id_safe is called, first on the id and then, as update_rooms and
\* update_room do one after the other, on what it returned
MakeB64IdSafe ==
    /\ pc = "idle"
    /\ returned' = Append(returned, _make_b64_id_safe(IF returned = <<>> THEN args[1]
                                                      ELSE returned[Len(returned)]))
    /\ pc' = IF Len(returned') = 2 THEN "done" ELSE "idle"
    /\ UNCHANGED << args, run_vars, csv_vars, process_vars >>

NextIds == MakeB64IdSafe

SpecIds == InitIds /\ [][NextIds]_vars

\* the texts handed to the boolean parsers: the twelve words in lower case,
\* in upper case, capitalised and in mixed case, texts that are none of them,
\* and texts with whitespace around a word
BoolTexts ==
    { "y", "Y", "yes", "YES", "Yes", "t", "T", "true", "TRUE", "True", "tRuE",
      "on", "ON", "On", "1",
      "n", "N", "no", "NO", "No", "nO", "f", "F", "false", "FALSE", "False",
      "off", "OFF", "Off", "0",
      "maybe", "2", "x", "", " yes", "TRUE " }

\* the ValueError of parse_bool, by its text
VALUE_ERROR == "Value must be true/false"

\* modify_rooms.py: returns the boolean, or VALUE_ERROR for the ValueError it raises
parse_bool(bool_str) ==
    LET upper_arg == upper(strip(bool_str)) IN
    IF upper_arg \in { "T", "TRUE" } THEN "True"
    ELSE IF upper_arg \in { "F", "FALSE" } THEN "False"
    ELSE VALUE_ERROR

InitBool ==
    /\ pc = "idle"
    /\ args \in { << text >> : text \in BoolTexts }
    /\ returned = <<>>
    /\ NoRun
    /\ NoCsv
    /\ NoProcess

\* _string_to_bool(val) is called on the text, as a CSV cell is parsed
StringToBool ==
    /\ pc = "idle"
    /\ returned' = << [fn |-> "_string_to_bool", value |-> _string_to_bool(args[1])] >>
    /\ pc' = "done"
    /\ UNCHANGED << args, run_vars, csv_vars, process_vars >>

\* parse_bool(bool_str) is called on the text, as a command-line argument is parsed
ParseBool ==
    /\ pc = "idle"
    /\ returned' = << [fn |-> "parse_bool", value |-> parse_bool(args[1])] >>
    /\ pc' = "done"
    /\ UNCHANGED << args, run_vars, csv_vars, process_vars >>

NextBool ==
    \/ StringToBool
    \/ ParseBool

SpecBool == InitBool /\ [][NextBool]_vars

\* the number of export_rooms_to_csv and update_rooms_from_csv calls of one process
MaxCalls == 3

\* a process that calls export_rooms_to_csv and update_rooms_from_csv: args
\* holds the calls made, returned the header each wrote
InitHeaders ==
    /\ pc = "idle"
    /\ args = <<>>
    /\ returned = <<>>
    /\ NoRun
    /\ NoCsv
    /\ NoProcess

\* export_rooms_to_csv up to writeheader(): the rooms are listed, or listing
\* them raises before the file is opened; field_names is the module's list
\* itself, which += extends in place
ExportRoomsToCsv ==
    /\ pc = "idle"
    /\ Len(args) < MaxCalls
    /\ \E export_non_modifiable \in BOOLEAN, listed \in BOOLEAN :
        /\ args' = Append(args, [fn |-> "export_rooms_to_csv",
                                 export_non_modifiable |-> export_non_modifiable])
        /\ IF listed
           THEN /\ field_names' = IF export_non_modifiable
                                  THEN field_names \o CSV_STREAM_NON_MODIFIABLE_FIELD_NAMES
                                  ELSE field_names
                /\ returned' = Append(returned, [raised |-> FALSE, header |-> field_names'])
           ELSE /\ field_names' = field_names
                /\ returned' = Append(returned, [raised |-> TRUE, header |-> <<>>])
    /\ UNCHANGED << pc, exit_code, run_vars, csv_vars >>

\* update_rooms_from_csv up to writeheader(): fields is the module's list
\* itself, which both += extend in place
UpdateRoomsFromCsv ==
    /\ pc = "idle"
    /\ Len(args) < MaxCalls
    /\ \E export_non_modifiable \in BOOLEAN :
        /\ args' = Append(args, [fn |-> "update_rooms_from_csv",
                                 export_non_modifiable |-> export_non_modifiable])
        /\ field_names' = (IF export_non_modifiable
                           THEN field_names \o CSV_STREAM_NON_MODIFIABLE_FIELD_NAMES
                           ELSE field_names) \o CSV_RESULTS_STREAM_FIELD_NAMES
        /\ returned' = Append(returned, [raised |-> FALSE, header |-> field_names'])
    /\ UNCHANGED << pc, exit_code, run_vars, csv_vars >>

NextHeaders ==
    \/ ExportRoomsToCsv
    \/ UpdateRoomsFromCsv

SpecHeaders == InitHeaders /\ [][NextHeaders]_vars

\* V2AdminStreamFilter: stream_types is <<>> when not set, the other fields
\* are Absent when not set
V2AdminStreamFilter ==
    [stream_types |-> <<>>, scope |-> Absent, origin |-> Absent, status |-> Absent,
     privacy |-> Absent]

STREAM_FILTER_TYPE_ROOM == "ROOM"

\* the filters callers hand to update_rooms_by_filter and update_rooms_by_filter_override
StreamFilters ==
    [stream_types : { <<>>, << "ROOM" >>, << "IM" >> },
     scope : { Absent, "INTERNAL", "EXTERNAL" },
     origin : { Absent, "INTERNAL", "EXTERNAL" },
     status : { Absent, "ACTIVE", "INACTIVE" },
     privacy : { Absent, "PUBLIC", "PRIVATE" }]

InitFilter ==
    /\ pc = "idle"
    /\ args \in { << filter >> : filter \in StreamFilters }
    /\ returned = <<>>
    /\ NoRun
    /\ NoCsv
    /\ NoProcess

\* update_rooms_by_filter without its line 283: origin is left as given
UpdateRoomsByFilter_KeepsOrigin ==
    /\ pc = "idle"
    /\ LET filter == [args[1] EXCEPT !.stream_types = << STREAM_FILTER_TYPE_ROOM >>,
                                     !.status = "ACTIVE"]
       IN  returned' = << [fn |-> "update_rooms_by_filter", stream_filter |-> filter] >>
    /\ pc' = "done"
    /\ UNCHANGED << args, run_vars, csv_vars, process_vars >>

\* update_rooms_by_filter up to get_rooms_by_filter(filter): returned holds the
\* filter list_all_streams_admin is called with; the streams it answers with
\* are then gone through by update_rooms
UpdateRoomsByFilter ==
    /\ pc = "idle"
    /\ LET filter == [args[1] EXCEPT !.stream_types = << STREAM_FILTER_TYPE_ROOM >>,
                                     !.status = "ACTIVE",
                                     !.origin = "INTERNAL"]
       IN  returned' = << [fn |-> "update_rooms_by_filter", stream_filter |-> filter] >>
    /\ pc' = "done"
    /\ UNCHANGED << args, run_vars, csv_vars, process_vars >>

\* update_rooms_by_filter_override up to get_rooms_by_filter(filter)
UpdateRoomsByFilterOverride ==
    /\ pc = "idle"
    /\ returned' = << [fn |-> "update_rooms_by_filter_override", stream_filter |-> args[1]] >>
    /\ pc' = "done"
    /\ UNCHANGED << args, run_vars, csv_vars, process_vars >>

NextFilter ==
    \/ UpdateRoomsByFilter
    \/ UpdateRoomsByFilterOverride

SpecFilter == InitFilter /\ [][NextFilter]_vars

\* modify_rooms.py: the filter flags of the command line, None until the flag
\* is given and True once it is
ALL_AVAILABLE_FILTER_ROOM_FLAGS ==
    { "internal", "external", "public", "private",
      "internalOrigin", "externalOrigin", "active", "inactive" }

FilterFlags == [ALL_AVAILABLE_FILTER_ROOM_FLAGS -> { Null, "True" }]

\* the truth value of a filter flag
Truthy(flag) == flag = "True"

\* the settings handed to create_stream_filter: <<>> for None, else << settings >>
FilterSettings ==
    { <<>>,
      << [V3RoomAttributes EXCEPT !["copy_protected"] = "True"] >>,
      << [V3RoomAttributes EXCEPT !["discoverable"] = "False"] >> }

\* "settings.attribute is not None"
IsNotNone(val) == val \notin { Absent, Null }

\* modify_rooms.py create_stream_filter, statement by statement
create_stream_filter(filter_flags, room_settings) ==
    LET f0 == V2AdminStreamFilter
        f1 == IF filter_flags["internal"] # filter_flags["external"]
              THEN (IF Truthy(filter_flags["internal"]) THEN [f0 EXCEPT !.scope = "INTERNAL"]
                    ELSE IF Truthy(filter_flags["external"]) THEN [f0 EXCEPT !.scope = "EXTERNAL"]
                    ELSE f0)
              ELSE f0
        f2 == IF filter_flags["internalOrigin"] # filter_flags["external"]
              THEN (IF Truthy(filter_flags["internal"]) THEN [f1 EXCEPT !.origin = "INTERNAL"]
                    ELSE f1)
              ELSE IF Truthy(filter_flags["externalOrigin"]) THEN [f1 EXCEPT !.origin = "EXTERNAL"]
              ELSE f1
        f3 == IF filter_flags["public"] # filter_flags["private"]
              THEN (IF Truthy(filter_flags["public"]) THEN [f2 EXCEPT !.privacy = "PRIVATE"]
                    ELSE IF Truthy(filter_flags["private"]) THEN [f2 EXCEPT !.privacy = "PUBLIC"]
                    ELSE f2)
              ELSE f2
        f4 == IF filter_flags["active"] # filter_flags["inactive"]
              THEN (IF Truthy(filter_flags["active"]) THEN [f3 EXCEPT !.status = "ACTIVE"]
                    ELSE IF Truthy(filter_flags["inactive"]) THEN [f3 EXCEPT !.status = "INACTIVE"]
                    ELSE f3)
              ELSE f3
        f5 == IF room_settings # <<>> /\ IsNotNone(room_settings[1]["copy_protected"])
              THEN [f4 EXCEPT !.scope = "INTERNAL"] ELSE f4
        f6 == IF room_settings # <<>> /\ IsNotNone(room_settings[1]["discoverable"])
              THEN [f5 EXCEPT !.scope = "INTERNAL", !.privacy = "PRIVATE"] ELSE f5
        f7 == IF room_settings # <<>> /\ IsNotNone(room_settings[1]["view_history"])
              THEN [f6 EXCEPT !.scope = "INTERNAL"] ELSE f6
    IN  [f7 EXCEPT !.stream_types = << "ROOM" >>]

InitFlags ==
    /\ pc = "idle"
    /\ args \in { << filter_flags, room_settings >> :
                    filter_flags \in FilterFlags, room_settings \in FilterSettings }
    /\ returned = <<>>
    /\ NoRun
    /\ NoCsv
    /\ NoProcess

\* create_stream_filter(filter_flags, settings) is called and returns
CreateStreamFilter ==
    /\ pc = "idle"
    /\ returned' = << create_stream_filter(args[1], args[2]) >>
    /\ pc' = "done"
    /\ UNCHANGED << args, run_vars, csv_vars, process_vars >>

NextFlags == CreateStreamFilter

SpecFlags == InitFlags /\ [][NextFlags]_vars

\* modify_rooms.py in single mode: update_single_room calls update_room with
\* the stream and the settings of the command line and pre_check left to its
\* default, True; args holds the stream id as given
InitSingle ==
    /\ pod = InitialPod
    /\ streams = <<>>
    /\ settings \in SettingsChoices
    /\ pre_check = TRUE
    /\ pc = "idle"
    /\ next = 1
    /\ stream_id \in RawIds
    /\ results = <<>>
    /\ stack = <<>>
    /\ trace = <<>>
    /\ before = InitialPod[_make_b64_id_safe(stream_id)]
    /\ outcome = NoSignal
    /\ log = <<>>
    /\ args = << stream_id >>
    /\ returned = <<>>
    /\ NoCsv
    /\ NoProcess

\* update_room has ended: update_single_room logs the update, or its bare
\* except logs the error and swallows it; single_mode and the script then run
\* to their end, which is exit status 0
UpdateSingleRoom ==
    /\ pc = "done"
    /\ log' = IF outcome.kind = "raise"
              THEN << [level |-> "error", stream_id |-> args[1],
                       line |-> "There was an error updating the stream."] >>
              ELSE << [level |-> "info", stream_id |-> args[1],
                       line |-> "Updated stream."] >>
    /\ exit_code' = << 0 >>
    /\ pc' = "exit"
    /\ UNCHANGED << pod, streams, settings, pre_check, next, stream_id, results, stack,
                    trace, before, outcome, csv_vars, fn_vars, field_names >>

NextSingle ==
    \/ Next
    \/ UpdateSingleRoom

SpecSingle == InitSingle /\ [][NextSingle]_vars

\* the rows handed to _csv_room_settings_to_v3_room_attributes on its own:
\* pinnedMessageId cells that are empty, URL safe already, not URL safe, and
\* the quotes that stand for the empty string
RowsToParse ==
    { [streamId |-> id, name |-> "room", description |-> d, membersCanInvite |-> m,
       discoverable |-> "true", copyProtected |-> "", viewHistory |-> "true",
       pinnedMessageId |-> p] :
        id \in RawIds, d \in { "", "notes " }, m \in { "", "true", "FALSE", "maybe" },
        p \in { "", "old", "m+g=", "x/y==", "\"\"" } }

InitParse ==
    /\ pc = "idle"
    /\ args \in { << room_row >> : room_row \in RowsToParse }
    /\ returned = <<>>
    /\ NoRun
    /\ NoCsv
    /\ NoProcess

\* _csv_room_settings_to_v3_room_attributes(room_row) is called and returns or raises
CsvRoomSettingsToV3RoomAttributes ==
    /\ pc = "idle"
    /\ returned' = << _csv_room_settings_to_v3_room_attributes(args[1]) >>
    /\ pc' = "done"
    /\ UNCHANGED << args, run_vars, csv_vars, process_vars >>

NextParse == CsvRoomSettingsToV3RoomAttributes

SpecParse == InitParse /\ [][NextParse]_vars

(***************************************************************************)
(* Properties of one update_room call (Spec)                               *)
(***************************************************************************)
Answer(op, res) == [op |-> op, res |-> res]

\* the BDK calls of the call after its pre-check fetch
Calls ==
    IF trace # <<>> /\ trace[1].op = "get_room_info" THEN Tail(trace) ELSE trace

\* the pre-check fetch, if the call has made one, was answered
Fetched == trace = <<>> \/ trace[1].op # "get_room_info" \/ trace[1].res = OK

StartsWith(s, prefix) ==
    Len(s) >= Len(prefix) /\ SubSeq(s, 1, Len(prefix)) = prefix

\* some attribute the settings carry differs from the room's
Differs(current, desired) ==
    \E a \in AttributeNames :
        desired[a] # Absent /\ desired[a] # Null /\ desired[a] # current[a]

Updated(o) == o.kind = "return" /\ o.detail.kind = "Updated"
Skipped(o) == o.kind = "return" /\ o.detail.kind = "Skipped"
Failed(o) == o.kind = "raise"

NewState == ApplyAttributes(before.room_attributes, settings)

PromotionRetried ==
    << Answer("update_room", NOT_ROOM_OWNER_MESSAGE), Answer("promote", OK),
       Answer("update_room", OK) >>

\* C1: for a room the bot is a member but no owner of, when the first update
\* is refused for lack of ownership, the promotion succeeds and the retried
\* update succeeds, the call demotes the bot and, when that succeeds, ends
\* Updated with the bot's membership and ownership of the room as they were
\* before the call
C1_PromotionRestoresStatus ==
    (pc = "done" /\ before.member /\ ~before.owner /\ StartsWith(Calls, PromotionRetried))
        => /\ Len(Calls) >= 4
           /\ Calls[4].op = "demote"
           /\ Calls[4].res = OK
                => /\ Len(Calls) = 4
                   /\ Updated(outcome)
                   /\ pod[stream_id].member = before.member
                   /\ pod[stream_id].owner = before.owner

C1_Witness ==
    /\ pc = "done"
    /\ before.member /\ ~before.owner
    /\ Calls = Append(PromotionRetried, Answer("demote", OK))
    /\ Updated(outcome)

MembershipScenario ==
    << Answer("update_room", NOT_ROOM_OWNER_MESSAGE),
       Answer("promote", NOT_ROOM_MEMBER_MESSAGE),
       Answer("add", OK),
       Answer("promote", OK),
       Answer("update_room", OK),
       Answer("remove", OK) >>

\* C2: for a room the bot is outside of and settings that differ from the
\* room's, as long as the pod answers as in the scenario (not an owner, not a
\* member, then success four times) the call makes exactly the calls update,
\* promote, add, promote, update, remove in this order, and then ends Updated
\* with the new settings and the bot outside the room again
C2_MembershipScenarioOrder ==
    ( /\ pc \in { "call", "done" }
      /\ ~before.member
      /\ Differs(before.room_attributes, settings)
      /\ Fetched
      /\ \A i \in 1..Len(Calls) : i <= 6 => Calls[i].res = MembershipScenario[i].res )
        => /\ Len(Calls) <= 6
           /\ \A i \in 1..Len(Calls) : Calls[i].op = MembershipScenario[i].op
           /\ Len(Calls) < 6 => pc = "call"
           /\ Len(Calls) = 6
                => /\ pc = "done"
                   /\ Updated(outcome)
                   /\ outcome.detail.room_attributes = NewState
                   /\ pod[stream_id].room_attributes = NewState
                   /\ ~pod[stream_id].member
                   /\ ~pod[stream_id].owner

C2_Witness ==
    /\ pc = "done"
    /\ ~before.member
    /\ Calls = MembershipScenario
    /\ Updated(outcome)
    /\ outcome.detail.room_attributes["members_can_invite"] = "False"
    /\ before.room_attributes["members_can_invite"] = "True"

\* C5: with pre_check, once the room is fetched and no attribute carried by
\* the settings differs from the room's, the call is over: it returns Skipped
\* with the fetched state, and the fetch is the only BDK call it has made
C5_PreCheckSkip ==
    ( /\ pc \in { "call", "done" }
      /\ pre_check
      /\ trace # <<>>
      /\ trace[1].res = OK
      /\ ~Differs(before.room_attributes, settings) )
        => /\ pc = "done"
           /\ trace = << Answer("get_room_info", OK) >>
           /\ outcome = ReturnSig([id |-> stream_id,
                                   room_attributes |-> before.room_attributes,
                                   kind |-> "Skipped"])
           /\ pod[stream_id] = before

C5_Witness ==
    /\ pc = "done"
    /\ pre_check
    /\ Skipped(outcome)
    /\ settings["members_can_invite"] = "False"
    /\ before.room_attributes["members_can_invite"] = "False"

\* the index in trace of the pre-check fetch if it failed, else of the first update
FirstAttempt ==
    IF trace # <<>> /\ trace[1].op = "get_room_info" /\ trace[1].res = OK THEN 2 ELSE 1

\* C6: when the pre-check fetch or the first update fails with a reason other
\* than NOT_ROOM_OWNER_MESSAGE, the call ends there: it raises that very error
\* and makes no add, promote, demote or remove call
C6_TerminalFailure ==
    ( /\ Len(trace) >= FirstAttempt
      /\ trace[FirstAttempt].res \in ApiMessages \ { NOT_ROOM_OWNER_MESSAGE } )
        => /\ pc = "done"
           /\ Len(trace) = FirstAttempt
           /\ outcome = RaiseSig(trace[FirstAttempt].res)
           /\ pod[stream_id] = before

C6_Witness ==
    /\ pc = "done"
    /\ trace = << Answer("get_room_info", OK),
                  Answer("update_room", NOT_ROOM_MEMBER_MESSAGE) >>
    /\ outcome = RaiseSig(NOT_ROOM_MEMBER_MESSAGE)

\* C10: when, in the promotion path, the retried update succeeds and the
\* demotion is refused because the bot is the last owner, the call ends there
\* and returns Updated with the new room state; no add call is made
C10_LastOwnerDemotionNotFatal ==
    StartsWith(Calls, Append(PromotionRetried, Answer("demote", NOT_ABLE_TO_DEMOTE_ONLY_OWNER)))
        => /\ pc = "done"
           /\ Len(Calls) = 4
           /\ Updated(outcome)
           /\ outcome.detail.room_attributes = NewState
           /\ pod[stream_id].room_attributes = NewState

C10_Witness ==
    /\ pc = "done"
    /\ Calls = Append(PromotionRetried, Answer("demote", NOT_ABLE_TO_DEMOTE_ONLY_OWNER))
    /\ Updated(outcome)
    /\ pod[stream_id].owner

Count(op) == Cardinality({ i \in 1..Len(trace) : trace[i].op = op })

JoinedAndPromoted ==
    << Answer("update_room", NOT_ROOM_OWNER_MESSAGE),
       Answer("promote", NOT_ROOM_MEMBER_MESSAGE),
       Answer("add", OK),
       Answer("promote", OK) >>

\* the retried update, the n-th call after the pre-check fetch, has failed
RetryFailed(n) ==
    /\ Len(Calls) >= n
    /\ Calls[n].op = "update_room"
    /\ Calls[n].res # OK

\* C7: when the promotion, or the join and the promotion, succeeded and the
\* retried update fails, the call ends there with Failed: no demote and no
\* remove call follows and the bot stays an owner of the room
C7_NoRollbackOnFailedRetry ==
    /\ (StartsWith(Calls, SubSeq(PromotionRetried, 1, 2)) /\ RetryFailed(3))
        => /\ pc = "done"
           /\ Len(Calls) = 3
           /\ Failed(outcome)
           /\ pod[stream_id].owner
    /\ (StartsWith(Calls, JoinedAndPromoted) /\ RetryFailed(5))
        => /\ pc = "done"
           /\ Len(Calls) = 5
           /\ Failed(outcome)
           /\ pod[stream_id].owner
           /\ pod[stream_id].member

\* C8: when the call ends with Failed on a failed step of a recovery path (a
\* promotion, a join, a demotion or a removal), the bot's membership and
\* ownership of the room are what they were before the call
C8_NoElevationLeftBehind ==
    ( /\ pc = "done"
      /\ Failed(outcome)
      /\ trace # <<>>
      /\ trace[Len(trace)].op \in { "promote", "add", "demote", "remove" }
      /\ trace[Len(trace)].res # OK )
        => /\ pod[stream_id].member = before.member
           /\ pod[stream_id].owner = before.owner

\* C9: one call runs the promotion path at most once and the membership path
\* at most once: a retried update starts no recovery of its own, so the call
\* makes at most three update calls, two promote calls and one add, one demote
\* and one remove call
C9_BoundedRecovery ==
    /\ \A i \in 2..Len(stack) : stack[i].pc = "update_room"
    /\ Count("update_room") <= 3
    /\ Count("promote") <= 2
    /\ Count("add") <= 1
    /\ Count("demote") <= 1
    /\ Count("remove") <= 1

JoinRefused ==
    << Answer("update_room", NOT_ROOM_OWNER_MESSAGE),
       Answer("promote", NOT_ROOM_MEMBER_MESSAGE),
       Answer("add", NOT_ABLE_TO_JOIN_MULTILATERAL_ROOMS) >>

\* C11: when, in the membership path, the join is refused because the bot may
\* not join multilateral rooms, the join step does not raise: the promotion is
\* called next; the call still ends with Failed, no retried update succeeds
\* and the bot is outside the room when the call is over
C11_ForbiddenJoinFails ==
    (~before.member /\ StartsWith(Calls, JoinRefused))
        => /\ Len(Calls) = 3 => pc = "call" /\ Top(stack).pc = "promote2"
           /\ Len(Calls) >= 4 => Calls[4].op = "promote"
           /\ \A i \in 4..Len(Calls) : ~(Calls[i].op = "update_room" /\ Calls[i].res = OK)
           /\ pc = "done"
                => /\ Failed(outcome)
                   /\ ~pod[stream_id].member

\* settings that carry nothing: every attribute is not set or set to None
NothingDesired ==
    { [V3RoomAttributes EXCEPT !["members_can_invite"] = m,
                               !["pinned_message_id"] = p,
                               !["discoverable"] = d] :
        m \in { Absent, Null }, p \in { Absent, Null }, d \in { Absent, Null } }

\* C13: for settings that carry nothing _check_room_modified is false whatever
\* the room's attributes are, and update_room with pre_check, once the room is
\* fetched, returns Skipped with the fetched state having made no other BDK
\* call
C13_NothingDesiredIsSkipped ==
    /\ \A old \in RoomStates, new \in NothingDesired : ~_check_room_modified(old, new)
    /\ ( /\ pc \in { "call", "done" }
         /\ pre_check
         /\ settings \in NothingDesired
         /\ trace # <<>>
         /\ trace[1].res = OK )
           => /\ pc = "done"
              /\ trace = << Answer("get_room_info", OK) >>
              /\ Skipped(outcome)
              /\ outcome.detail.room_attributes = before.room_attributes
              /\ pod[stream_id] = before

C13_Witness ==
    /\ pc = "done"
    /\ pre_check
    /\ settings \in NothingDesired
    /\ Skipped(outcome)
    /\ Count("update_room") = 0
    /\ before.room_attributes["members_can_invite"] = "True"

\* C28: a top-level update_room call fetches the room at most once, as its
\* first BDK call, and never when pre_check is false: the retries of the
\* promotion and membership paths run without pre-check
C28_AtMostOneFetch ==
    /\ Count("get_room_info") <= 1
    /\ \A i \in 1..Len(trace) : trace[i].op = "get_room_info" => i = 1
    /\ ~pre_check => Count("get_room_info") = 0
    /\ (pre_check /\ trace # <<>>) => trace[1].op = "get_room_info"

\* a call with pre_check went through the promotion path and its retry
\* after the one fetch
C28_Witness ==
    /\ pc = "done"
    /\ pre_check
    /\ Count("get_room_info") = 1
    /\ Count("update_room") = 2
    /\ Count("promote") >= 1
    /\ Updated(outcome)

\* C29: when update_room raises, no BDK update call of it has succeeded and
\* the room's attributes are as they were before the call
C29_FailedMeansNothingWritten ==
    (pc = "done" /\ Failed(outcome))
        => /\ \A i \in 1..Len(trace) : ~(trace[i].op = "update_room" /\ trace[i].res = OK)
           /\ pod[stream_id].room_attributes = before.room_attributes

\* what does hold: a call that raises without a BDK update call having
\* succeeded leaves the room's attributes as they were
FailedWithoutWriteKeepsAttributes ==
    (pc = "done" /\ Failed(outcome)
        /\ \A i \in 1..Len(trace) : ~(trace[i].op = "update_room" /\ trace[i].res = OK))
        => pod[stream_id].room_attributes = before.room_attributes

\* the call has entered the promotion path: it has tried to promote the bot
EnteredPromotionPath == Count("promote") >= 1

\* C30: when update_room raises after having entered the promotion path,
\* the error it raises is the error that made it enter the path, 'Only room
\* owners can perform this action.', whichever later step failed
C30_FirstErrorSurfaces ==
    (pc = "done" /\ Failed(outcome) /\ EnteredPromotionPath)
        => outcome.error = NOT_ROOM_OWNER_MESSAGE

\* the call raised the owner error although its last step, the removal of
\* the bot after a retried update that succeeded, failed with another error
C30_Witness ==
    /\ pc = "done"
    /\ Failed(outcome)
    /\ EnteredPromotionPath
    /\ outcome.error = NOT_ROOM_OWNER_MESSAGE
    /\ trace[Len(trace)].op = "remove"
    /\ trace[Len(trace)].res \notin { OK, NOT_ROOM_OWNER_MESSAGE }

\* before its i-th BDK call the call has made the BDK call op, answered by
\* one of answers, and after that an update that succeeded
ElevatedAndWritten(i, op, answers) ==
    \E j \in 1..(i - 1), k \in 1..(i - 1) :
        /\ j < k
        /\ trace[j].op = op
        /\ trace[j].res \in answers
        /\ trace[k] = Answer("update_room", OK)

\* C31: within one update_room call the bot is demoted only after a
\* promotion of that call succeeded and an update after it succeeded, and
\* removed only after the call tried to add it and an update after that
\* succeeded; a call whose first update succeeds makes no other BDK call
C31_DeElevationFollowsElevation ==
    /\ \A i \in 1..Len(trace) :
        /\ trace[i].op = "demote" => ElevatedAndWritten(i, "promote", { OK })
        /\ trace[i].op = "remove" => ElevatedAndWritten(i, "add", Responses("add"))
    /\ (Calls # <<>> /\ Calls[1] = Answer("update_room", OK)) => Len(Calls) = 1
    /\ Count("promote") = 0 => Count("demote") = 0 /\ Count("remove") = 0

\* a call that demoted the bot and, the demotion refused for lack of
\* membership, went on to add it, write again and remove it
C31_Witness ==
    /\ pc = "done"
    /\ Count("demote") = 1
    /\ Count("add") = 1
    /\ Count("remove") = 1
    /\ trace[Len(trace)] = Answer("remove", OK)
    /\ Updated(outcome)

(***************************************************************************)
(* Properties of update_rooms (SpecBulk)                                   *)
(***************************************************************************)
NoError(entry) == entry.line # "error"

\* the rooms update_rooms has gone through without an error
Succeeded == SelectSeq(log, NoError)

\* C3 as claimed: update_rooms returns one outcome for every room it was handed
C3_OneOutcomePerRoom ==
    pc = "done" => Len(results) = Len(streams)

\* C3 as amended: update_rooms goes through every stream in input order
\* whatever fails, and what it returns are the rooms whose update_room
\* returned (Updated or Skipped), in input order; a room whose update_room
\* raised is logged and has no entry in the result
C3_ResultsAreTheSuccesses ==
    /\ Len(log) = next - 1
    /\ \A i \in 1..Len(log) : log[i].id = _make_b64_id_safe(streams[i])
    /\ Len(results) = Len(Succeeded)
    /\ \A i \in 1..Len(results) :
        /\ results[i].id = Succeeded[i].id
        /\ results[i].kind = Succeeded[i].line
    /\ pc = "done" => Len(log) = Len(streams)

C3_Witness ==
    /\ pc = "done"
    /\ Len(streams) = 3
    /\ [i \in 1..3 |-> log[i].line] = << "Updated", "error", "Updated" >>
    /\ [i \in 1..Len(results) |-> results[i].id] = << log[1].id, log[3].id >>

\* rounds i and i + 1 of the iteration are calls for the same room
Successive(i) == i + 1 <= Len(log) /\ log[i].id = log[i + 1].id

\* C4 as claimed: two successive calls for a room with pre_check make at most
\* one BDK update call in total and the second returns Skipped
C4_AtMostOneWrite ==
    pre_check =>
        \A i \in 1..Len(log) :
            Successive(i)
                => /\ log[i].update_calls + log[i + 1].update_calls <= 1
                   /\ log[i + 1].line = "Skipped"

\* C4 as amended: when the first of two successive calls for a room with
\* pre_check returns (Updated or Skipped) and the second call's fetch of the
\* room is answered, the second call makes no BDK update call and returns
\* Skipped
C4_SecondCallWritesNothing ==
    pre_check =>
        \A i \in 1..Len(log) :
            (Successive(i) /\ log[i].line # "error" /\ log[i + 1].fetched)
                => /\ log[i + 1].update_calls = 0
                   /\ log[i + 1].line = "Skipped"

C4_Witness ==
    /\ pre_check
    /\ Len(log) >= 2
    /\ Successive(1)
    /\ log[1].line = "Updated"
    /\ log[1].update_calls = 2
    /\ log[2].fetched
    /\ log[2].line = "Skipped"

(***************************************************************************)
(* Properties of _check_room_modified (SpecModified)                       *)
(***************************************************************************)
\* C12: _check_room_modified(current, desired) is true exactly when some
\* attribute that desired carries with a value other than None differs from
\* current's, an attribute current has no value for counting as different
C12_ModifiedIffDiffers ==
    (pc = "done" /\ Len(args) = 2)
        => (returned[1] <=> Differs(args[1], args[2]))

(***************************************************************************)
(* Properties of _make_b64_id_safe (SpecIds)                               *)
(***************************************************************************)
\* C15: _make_b64_id_safe applied to what it returned returns the same id
C15_NormalizationIdempotent ==
    (Len(args) = 1 /\ Len(returned) = 2) => returned[2] = returned[1]

\* C16: what _make_b64_id_safe returns holds no "+" and no "/" and ends
\* neither with "=" nor with a whitespace
C16_NormalizedForm ==
    (Len(args) = 1 /\ Len(returned) >= 1)
        => LET safe == returned[1] IN
           /\ \A i \in 1..Len(safe) : safe[i] \notin { "+", "/" }
           /\ safe # <<>> => safe[Len(safe)] \notin { "=" } \cup Whitespace

(***************************************************************************)
(* Properties of the bulk drivers (SpecBatch)                              *)
(***************************************************************************)
\* update_rooms_from_csv can call the BDK for the row: the row has a streamId
\* and its room_settings are given or can be parsed from it
Reconcilable(room) ==
    /\ "streamId" \in DOMAIN room
    /\ \/ incoming_room_settings # <<>>
       \/ ~_csv_room_settings_to_v3_room_attributes(room).raised

\* C14: a bulk run never stops early.  update_rooms goes through every stream
\* it is handed, once and in input order, whatever happened to the streams
\* before; update_rooms_from_csv goes through every row of the file, once and
\* in input order, and calls the BDK for every row it can; either is over
\* only after the last one
C14_BatchNeverStopsEarly ==
    /\ rooms_csv.header = {}
        => /\ Len(log) = next - 1
           /\ \A i \in 1..Len(log) : log[i].id = _make_b64_id_safe(streams[i])
           /\ pc = "done" => Len(log) = Len(streams)
    /\ rooms_csv.header # {}
        => /\ Len(log) = IF pc = "row" THEN row - 1 ELSE row
           /\ \A i \in 1..Len(log) :
                /\ log[i].row = i
                /\ Reconcilable(rooms_csv.rows[i]) => log[i].bdk_called
           /\ pc = "done" => Len(log) = Len(rooms_csv.rows)

C14_Witness ==
    /\ pc = "done"
    /\ Len(streams) = 3
    /\ [i \in 1..3 |-> log[i].line] = << "error", "error", "Skipped" >>

(***************************************************************************)
(* Properties of update_rooms_from_csv (SpecCsv)                           *)
(***************************************************************************)
\* C17: for a file with a streamId column, every row gone through has exactly
\* one row in the output file, in input order, under the row's URL safe id;
\* its status is SUCCESS, SKIPPED or FAILURE and its reason is filled exactly
\* when the status is SKIPPED or FAILURE; the run is over only when every row
\* has its output row, whichever rows failed
C17_OneReportRowPerRow ==
    "streamId" \in rooms_csv.header
        => /\ Len(log) = IF pc = "row" THEN row - 1 ELSE row
           /\ Len(out_file) = Len(log)
           /\ \A i \in 1..Len(out_file) :
                /\ log[i].row = i
                /\ log[i].written
                /\ out_file[i]["streamId"] = _make_b64_id_safe(rooms_csv.rows[i]["streamId"])
                /\ out_file[i]["status"] = log[i].line
                /\ out_file[i]["status"] \in { "SUCCESS", "SKIPPED", "FAILURE" }
                /\ out_file[i]["reason"] # "" <=> out_file[i]["status"] \in { "SKIPPED", "FAILURE" }
           /\ pc = "done" => Len(out_file) = Len(rooms_csv.rows)

C17_Witness ==
    /\ pc = "done"
    /\ Len(out_file) = 2
    /\ out_file[1]["status"] = "FAILURE"
    /\ out_file[1]["reason"] = NOT_ROOM_MEMBER_MESSAGE
    /\ out_file[2]["status"] = "SUCCESS"
    /\ out_file[2]["reason"] = ""
    /\ out_file[2]["membersCanInvite"] = "false"

\* the row has no room identifier: the file has no streamId column or the
\* row's streamId cell is empty
MissingId(room) == "streamId" \notin DOMAIN room \/ room["streamId"] = <<>>

\* C18: a row without a room identifier is skipped: no BDK call is made for
\* it, the log says that it has no stream id, no FAILURE is reported for it,
\* and the rows after it are gone through
C18_MissingIdSkipped ==
    /\ \A i \in 1..Len(log) :
        (rooms_csv.header # {} /\ MissingId(rooms_csv.rows[i]))
            => /\ ~log[i].bdk_called
               /\ log[i].line = "no stream id"
               /\ ~log[i].written
    /\ (rooms_csv.header # {} /\ pc = "done") => Len(log) = Len(rooms_csv.rows)

\* the file is an export of the pod that nobody edited, read with pre_check
\* and without settings for all rows
RoundTrip ==
    /\ pre_check
    /\ incoming_room_settings = <<>>
    /\ "streamId" \in rooms_csv.header
    /\ \A i \in 1..Len(rooms_csv.rows) : rooms_csv.rows[i] \in ExportedRows

\* C19: reading back an export that nobody edited, every row whose room the
\* pre-check fetches ends SKIPPED, and no BDK update call is made for any row
C19_RoundTripSkipsAll ==
    RoundTrip
        => \A i \in 1..Len(log) :
            /\ ~log[i].update_called
            /\ log[i].fetched => log[i].line = "SKIPPED"

\* the copyProtected cell of the row parses to true
CopyProtectedTrue(room) ==
    /\ "copyProtected" \in DOMAIN room
    /\ strip(room["copyProtected"]) # ""
    /\ _string_to_bool(strip(room["copyProtected"])) = "True"

\* C20: copyProtected is not dropped: the room_settings parsed from a row
\* whose copyProtected cell parses to true carry copy_protected = True, and
\* settings given for all rows are the room_settings of every row as given
C20_CopyProtectedKept ==
    \A i \in 1..Len(log) :
        (rooms_csv.header # {} /\ log[i].room_settings # <<>>)
            => /\ (incoming_room_settings = <<>> /\ CopyProtectedTrue(rooms_csv.rows[i]))
                    => log[i].room_settings[1]["copy_protected"] = "True"
               /\ incoming_room_settings # <<>>
                    => log[i].room_settings = incoming_room_settings


\* what _csv_room_settings_to_v3_room_attributes makes of the row once its
\* streamId is made URL safe
ParsedFrom(room) ==
    _csv_room_settings_to_v3_room_attributes(
        [room EXCEPT !["streamId"] = _make_b64_id_safe(room["streamId"])])

\* C22: when settings are given for all rows, every row with a room
\* identifier is reconciled with exactly those settings, whatever its own
\* cells hold; when none are given, a row is reconciled with the settings
\* parsed from its own cells, and not at all if they cannot be parsed
C22_SettingsOverride ==
    \A i \in 1..Len(log) :
        (rooms_csv.header # {} /\ ~MissingId(rooms_csv.rows[i]))
            => LET parsed == ParsedFrom(rooms_csv.rows[i]) IN
               /\ incoming_room_settings # <<>>
                    => /\ log[i].room_settings = incoming_room_settings
                       /\ log[i].bdk_called
               /\ (incoming_room_settings = <<>> /\ ~parsed.raised)
                    => /\ log[i].room_settings = << parsed.room_attributes >>
                       /\ log[i].bdk_called
               /\ (incoming_room_settings = <<>> /\ parsed.raised)
                    => /\ log[i].room_settings = <<>>
                       /\ ~log[i].bdk_called

\* settings are given for all rows, and a row whose own cells cannot even be
\* parsed ends SUCCESS after a BDK update with the given settings
C22_Witness ==
    /\ pc = "done"
    /\ incoming_room_settings # <<>>
    /\ \E i \in 1..Len(log) :
        /\ ~MissingId(rooms_csv.rows[i])
        /\ ParsedFrom(rooms_csv.rows[i]).raised
        /\ log[i].line = "SUCCESS"
        /\ log[i].update_called
        /\ log[i].room_settings[1]["copy_protected"] = "True"

\* a row is reported SUCCESS only if a BDK update call was made for its room
SuccessOnlyAfterUpdate ==
    \A i \in 1..Len(log) : log[i].line = "SUCCESS" => log[i].update_called

\* C32: a row is reported SUCCESS only if a BDK update call was made for its
\* room while it was gone through, and without pre_check every row the BDK
\* is called for leads to a BDK update call, no fetch before it
C32_SuccessMeansWritten ==
    /\ SuccessOnlyAfterUpdate
    /\ \A i \in 1..Len(log) :
        (~pre_check /\ log[i].bdk_called) => log[i].update_called /\ ~log[i].fetched

\* what does hold: with pre_check a row is reported SUCCESS only after a BDK
\* update call, and without pre_check the loop itself fetches nothing
SuccessMeansWrittenIfPreChecked ==
    \A i \in 1..Len(log) :
        /\ (pre_check /\ log[i].line = "SUCCESS") => log[i].update_called
        /\ ~pre_check => ~log[i].fetched

(***************************************************************************)
(* Properties of the boolean parsers (SpecBool)                            *)
(***************************************************************************)
\* the case variants of the words that mean true and of those that mean false
TrueTexts ==
    { "y", "Y", "yes", "YES", "Yes", "t", "T", "true", "TRUE", "True", "tRuE",
      "on", "ON", "On", "1" }

FalseTexts ==
    { "n", "N", "no", "NO", "No", "nO", "f", "F", "false", "FALSE", "False",
      "off", "OFF", "Off", "0" }

\* the errors that tell the caller the text is not a boolean
ValidationErrors == { VALUE_ERROR }

\* C21: a boolean parser returns true for every case variant of y, yes, t,
\* true, on, 1 and false for every case variant of n, no, f, false, off, 0;
\* for any other text it raises a validation error and yields no value
C21_BooleanParsing ==
    (pc = "done" /\ Len(args) = 1 /\ args[1] \in BoolTexts /\ returned # <<>>)
        => LET text == args[1]
               value == returned[1].value
           IN  /\ text \in TrueTexts => value = "True"
               /\ text \in FalseTexts => value = "False"
               /\ text \notin TrueTexts \cup FalseTexts => value \in ValidationErrors

\* what does hold of _string_to_bool: the twelve words and their
\* case variants are parsed, and no other text yields a value
CellWordsParsed ==
    (pc = "done" /\ Len(args) = 1 /\ args[1] \in BoolTexts /\ returned # <<>>
        /\ returned[1].fn = "_string_to_bool")
        => LET text == args[1]
               value == returned[1].value
           IN  /\ text \in TrueTexts => value = "True"
               /\ text \in FalseTexts => value = "False"
               /\ text \notin TrueTexts \cup FalseTexts => value \notin BoolValues

(***************************************************************************)
(* Properties of the CSV headers over the calls of a process (SpecHeaders) *)
(***************************************************************************)
\* the header the call should write: the eight modifiable columns, the
\* " (X)" columns if the call asks for them and, for an update, status and reason
HeaderOf(call) ==
    CSV_STREAM_FIELD_NAMES
        \o (IF call.export_non_modifiable THEN CSV_STREAM_NON_MODIFIABLE_FIELD_NAMES ELSE <<>>)
        \o (IF call.fn = "update_rooms_from_csv" THEN CSV_RESULTS_STREAM_FIELD_NAMES ELSE <<>>)

\* C23: whatever calls the process made before, an export writes the eight
\* modifiable columns followed by the " (X)" columns only if it asks for
\* them, and an update writes those columns followed by status and reason once
C23_HeaderShape ==
    \A i \in 1..Len(returned) :
        (pc = "idle" /\ Len(args) = Len(returned) /\ ~returned[i].raised)
            => returned[i].header = HeaderOf(args[i])

\* what does hold: the first call of a process to write a header writes
\* the header it should
FirstHeaderShape ==
    \A i \in 1..Len(returned) :
        (pc = "idle" /\ Len(args) = Len(returned) /\ ~returned[i].raised
            /\ \A j \in 1..(i - 1) : returned[j].raised)
            => returned[i].header = HeaderOf(args[i])

(***************************************************************************)
(* Properties of the stream filters (SpecFilter, SpecFlags)                *)
(***************************************************************************)
\* C24: update_rooms_by_filter lists the rooms with stream type ROOM, status
\* ACTIVE and origin INTERNAL whatever the caller's filter had, and with the
\* caller's scope and privacy; update_rooms_by_filter_override lists them
\* with the caller's filter as it is
C24_FilterForcedOrKept ==
    (pc = "done" /\ Len(args) = 1 /\ args[1] \in StreamFilters)
        => LET given == args[1]
               used == returned[1].stream_filter
           IN  /\ returned[1].fn = "update_rooms_by_filter"
                    => /\ used.stream_types = << "ROOM" >>
                       /\ used.status = "ACTIVE"
                       /\ used.origin = "INTERNAL"
                       /\ used.scope = given.scope
                       /\ used.privacy = given.privacy
               /\ returned[1].fn = "update_rooms_by_filter_override" => used = given

\* update_rooms_by_filter was handed a filter for inactive streams of external
\* origin that are no rooms, with a scope and a privacy
C24_Witness ==
    /\ pc = "done"
    /\ Len(args) = 1
    /\ args[1] = [stream_types |-> << "IM" >>, scope |-> "EXTERNAL", origin |-> "EXTERNAL",
                  status |-> "INACTIVE", privacy |-> "PUBLIC"]
    /\ returned[1].fn = "update_rooms_by_filter"
    /\ returned[1].stream_filter.origin = "INTERNAL"
    /\ returned[1].stream_filter.scope = "EXTERNAL"

\* what a pair of flags should make of a field: the value of the one flag
\* given, nothing if both or neither are given
FlagPair(filter_flags, flag, value, other_flag, other_value) ==
    IF Truthy(filter_flags[flag]) /\ ~Truthy(filter_flags[other_flag]) THEN value
    ELSE IF Truthy(filter_flags[other_flag]) /\ ~Truthy(filter_flags[flag]) THEN other_value
    ELSE Absent

\* C25: without settings, create_stream_filter sets scope, privacy, origin
\* and status each to the value of the one flag of its pair that is given,
\* and leaves the field unset if both or neither are given
C25_FlagsMapToTheirFilter ==
    (pc = "done" /\ Len(args) = 2 /\ args[1] \in FilterFlags /\ args[2] = <<>>)
        => LET filter_flags == args[1]
               stream_filter == returned[1]
           IN  /\ stream_filter.scope
                    = FlagPair(filter_flags, "internal", "INTERNAL", "external", "EXTERNAL")
               /\ stream_filter.privacy
                    = FlagPair(filter_flags, "public", "PUBLIC", "private", "PRIVATE")
               /\ stream_filter.origin
                    = FlagPair(filter_flags, "internalOrigin", "INTERNAL",
                               "externalOrigin", "EXTERNAL")
               /\ stream_filter.status
                    = FlagPair(filter_flags, "active", "ACTIVE", "inactive", "INACTIVE")

\* what does hold of create_stream_filter without settings: scope and status
FlagsOfScopeAndStatus ==
    (pc = "done" /\ Len(args) = 2 /\ args[1] \in FilterFlags /\ args[2] = <<>>)
        => LET filter_flags == args[1]
               stream_filter == returned[1]
           IN  /\ stream_filter.scope
                    = FlagPair(filter_flags, "internal", "INTERNAL", "external", "EXTERNAL")
               /\ stream_filter.status
                    = FlagPair(filter_flags, "active", "ACTIVE", "inactive", "INACTIVE")

(***************************************************************************)
(* Properties of the single mode of modify_rooms.py (SpecSingle)           *)
(***************************************************************************)
\* C26: when update_room fails for the room given in single mode, the
\* failure is logged with the room's identifier and the process ends with a
\* non-zero exit status
C26_SingleFailureSurfaces ==
    (pc = "exit" /\ outcome.kind = "raise")
        => /\ \E i \in 1..Len(log) : log[i].level = "error" /\ log[i].stream_id = args[1]
           /\ exit_code # << 0 >>

\* what does hold: the failure is logged as an error with the identifier given
SingleFailureLogged ==
    (pc = "exit" /\ outcome.kind = "raise")
        => \E i \in 1..Len(log) : log[i].level = "error" /\ log[i].stream_id = args[1]

(***************************************************************************)
(* Properties of update_rooms, BDK call by BDK call (SpecSeq)              *)
(***************************************************************************)
\* C27: during update_rooms at most one BDK call is in flight, and while a
\* call issued for a stream is in flight no call has been issued for a later
\* stream: every call in flight is for the stream the loop is at
C27_StrictlySequential ==
    /\ Len(trace) <= 1
    /\ \A i \in 1..Len(trace) : trace[i].room = next
    /\ pc \in { "loop", "done" } => trace = <<>>

\* the first stream's update_room ended after a recovery, and the second
\* stream's update call is in flight
C27_Witness ==
    /\ pc = "await"
    /\ next = 2
    /\ Len(log) = 1
    /\ pod[log[1].id].room_attributes # InitialPod[log[1].id].room_attributes
    /\ trace = << [room |-> 2, op |-> "update_room"] >>
    /\ Len(stack) = 2

(***************************************************************************)
(* Properties of the parsing of a CSV row (SpecParse)                      *)
(***************************************************************************)
\* the pinnedMessageId cell of the row holds a message id
PinnedMessageGiven(room_row) ==
    strip(room_row["pinnedMessageId"]) \notin { "", "\"\"", "''" }

\* C33: the settings built from a row with a non-empty pinnedMessageId hold
\* the URL-safe form of the cell: "+" as "-", "/" as "_", no trailing "="
C33_PinnedMessageIdEncoded ==
    (pc = "done" /\ Len(args) = 1 /\ args[1] \in RowsToParse /\ ~returned[1].raised
        /\ PinnedMessageGiven(args[1]))
        => returned[1].room_attributes["pinned_message_id"]
                = MakeB64IdSafeText(strip(args[1]["pinnedMessageId"]))

\* what does hold: the settings hold the cell as it is, stripped of the
\* whitespace around it
PinnedMessageIdKept ==
    (pc = "done" /\ Len(args) = 1 /\ args[1] \in RowsToParse /\ ~returned[1].raised
        /\ PinnedMessageGiven(args[1]))
        => returned[1].room_attributes["pinned_message_id"] = strip(args[1]["pinnedMessageId"])

(***************************************************************************)
(* Properties of update_rooms_by_id (SpecById)                             *)
(***************************************************************************)
\* C34: handed a list of stream ids, update_rooms_by_id calls update_room
\* once for every id in list order, goes on past the ids whose update fails,
\* and returns the results of the rooms that were updated
C34_EveryIdAttempted ==
    (pc = "done" /\ args = << "list" >>)
        => /\ outcome.kind = "return"
           /\ Len(log) = Len(streams)
           /\ \A i \in 1..Len(log) :
                log[i].id = _make_b64_id_safe(_make_b64_id_safe(streams[i]))
           /\ Len(results) = Cardinality({ i \in 1..Len(log) : log[i].line # "error" })

\* what does hold: handed the ids as an asynchronous iterator,
\* update_rooms_by_id does all of that
EveryIdOfAnAsyncIteratorAttempted ==
    (pc = "done" /\ args = << "aiter" >>)
        => /\ outcome.kind = "return"
           /\ Len(log) = Len(streams)
           /\ \A i \in 1..Len(log) :
                log[i].id = _make_b64_id_safe(_make_b64_id_safe(streams[i]))
           /\ Len(results) = Cardinality({ i \in 1..Len(log) : log[i].line # "error" })
====
